---- MODULE Spec2Model ----
(***************************************************************************)
(* A model of the position-indexing engine of the chess statistics         *)
(* application (class MoveIndex): per-position buckets of move counters,   *)
(* the three ingestion operations, clear, the queries and the serialized   *)
(* form; the loop of fetchAndIndexUserGames that fills an index from the   *)
(* lines of a download; the localStorage cache of an index and the user    *)
(* history kept there; and the readiness protocol of StockfishEngine.      *)
(*                                                                         *)
(* Strings the code slices (UCI moves, move keys, squares) are sequences   *)
(* of one-character strings, so slice and concatenation are SubSeq and \o. *)
(* Strings the code only compares (SAN moves, result tags, player names)   *)
(* are TLA+ strings.  A Map is the sequence of its <<key, value>> entries  *)
(* in insertion order.  The names of the user history are sequences of     *)
(* one-character strings too, since the code trims and lower-cases them.   *)
(*                                                                         *)
(* The rules engine (chess.js) is an external library.  It is modelled on  *)
(* a fragment of chess: from the standard starting position the moves      *)
(* e2e4, g1f3 (White) and e7e5 (Black), each legal exactly when it is      *)
(* legal in chess for the positions this fragment reaches.                 *)
(***************************************************************************)
EXTENDS Integers, Sequences, FiniteSets, TLC

VARIABLES
  index,         \* MoveIndex.index: position identifier -> PositionBucket
  bareTouched,   \* history: identifiers a bare move-list ingestion recorded a ply for
  gamesVisited,  \* history: identifier -> number of ingestGamePgn calls that replayed a ply from it
  lastOp,        \* history: the name of the last operation performed
  lastArg,       \* history: its arguments, in the runs that record them (for the user
                 \* history: the name given, and whether the store took the write)
  recording,     \* whether the run records arguments (fixed by the initial state)
  nOps,          \* history: number of operations performed, of those MaxOps bounds
  discarded,     \* history: the number of buckets the last operation removed
  held,          \* the result of the last query, as its caller holds it
  pending,       \* fetchAndIndexUserGames: username, lines, and how many lines the loop has done
  totalGames,    \* fetchAndIndexUserGames: totalGames
  stored,        \* the serialized data offered to fromSerialized
  localStorage,  \* window.localStorage: key -> the text stored under it
  engine         \* a StockfishEngine, its workers and the promises init has returned

vars == <<index, bareTouched, gamesVisited, lastOp, lastArg, recording, nOps,
          discarded, held, pending, totalGames, stored, localStorage, engine>>

\* ---------------------------------------------------------------- bounds

\* Longest bare move list offered to ingestUciMoves and ingestSanMoves, in plies.
MaxPlies == 2
\* Number of operations in a run.
MaxOps == 3
\* Largest number of fields left out of the bucket records offered to fromSerialized.
MaxOmitted == 2
\* Largest number of lines in a download given to the loop of fetchAndIndexUserGames.
MaxLines == 3
\* Number of different user names offered to the user history.
MaxNames == 22
\* Number of workers a StockfishEngine makes in a run.
MaxWorkers == 3
\* Number of commands waiting in a worker beyond which no evaluation is requested.
MaxQueued == 2

\* ---------------------------------------------------------------- strings

Min(a, b) == IF a <= b THEN a ELSE b

\* String.prototype.slice(a, b) for 0 <= a <= b.
Slice(s, a, b) == SubSeq(s, a + 1, Min(b, Len(s)))

\* String.prototype.slice(a).
SliceFrom(s, a) == SubSeq(s, a + 1, Len(s))

E2 == <<"e", "2">>
E4 == <<"e", "4">>
G1 == <<"g", "1">>
F3 == <<"f", "3">>
E7 == <<"e", "7">>
E5 == <<"e", "5">>

\* ---------------------------------------------------------------- rules engine (chess.js)

\* The moves of the fragment, as the engine resolves them (chess.js Move).
MoveTable ==
  { [piece |-> "P", color |-> "w", from |-> E2, to |-> E4, san |-> "e4",  pawn |-> TRUE],
    [piece |-> "N", color |-> "w", from |-> G1, to |-> F3, san |-> "Nf3", pawn |-> FALSE],
    [piece |-> "p", color |-> "b", from |-> E7, to |-> E5, san |-> "e5",  pawn |-> TRUE] }

\* new Chess(): the standard starting position.
NewChess ==
  [at |-> [p \in {"P", "N", "p"} |->
             CASE p = "P" -> E2 [] p = "N" -> G1 [] OTHER -> E7],
   turn |-> "w", half |-> 0, full |-> 1]

\* chess.fen(): placement, side to move, castling rights, en-passant target,
\* halfmove clock, fullmove number.  No king or rook moves in the fragment, and no
\* pawn can capture en passant, so those two fields are constant.
Fen(board) ==
  [placement |-> board.at, turn |-> board.turn, castling |-> "KQkq", ep |-> "-",
   half |-> board.half, full |-> board.full]

LegalMoves(board) ==
  {m \in MoveTable : m.color = board.turn /\ board.at[m.piece] = m.from}

MakeMove(board, m) ==
  [at |-> [board.at EXCEPT ![m.piece] = m.to],
   turn |-> IF board.turn = "w" THEN "b" ELSE "w",
   half |-> IF m.pawn THEN 0 ELSE board.half + 1,
   full |-> IF board.turn = "b" THEN board.full + 1 ELSE board.full]

\* chess.move({from, to, promotion}): the legal move with these squares; a legal
\* move that is no promotion matches whatever promotion is given.  Throws otherwise.
ObjectMatches(board, from, to) ==
  {m \in LegalMoves(board) : m.from = from /\ m.to = to}

\* chess.move(san): the legal move with this notation.  Throws otherwise.
SanMatches(board, san) ==
  {m \in LegalMoves(board) : m.san = san}

\* ---------------------------------------------------------------- Map<string, number>

MapKeys(m) == {m[i][1] : i \in 1..Len(m)}

MapHas(m, k) == k \in MapKeys(m)

\* m.get(k) ?? 0
MapGet(m, k) ==
  IF MapHas(m, k) THEN m[CHOOSE i \in 1..Len(m) : m[i][1] = k][2] ELSE 0

\* m.set(k, v): an existing key keeps its place, a new key goes last.
MapSet(m, k, v) ==
  IF MapHas(m, k)
  THEN [i \in 1..Len(m) |-> IF m[i][1] = k THEN <<k, v>> ELSE m[i]]
  ELSE Append(m, <<k, v>>)

\* m.set(k, (m.get(k) ?? 0) + 1)
MapInc(m, k) == MapSet(m, k, MapGet(m, k) + 1)

RECURSIVE SumValues(_)
SumValues(m) == IF m = <<>> THEN 0 ELSE m[1][2] + SumValues(Tail(m))

\* ---------------------------------------------------------------- PositionBucket

\* The bucket literal of addMove and addResult.
EmptyBucket ==
  [total |-> 0, moveCounts |-> <<>>, toSquareCounts |-> <<>>, fromSquareCounts |-> <<>>,
   results |-> [win |-> 0, loss |-> 0, draw |-> 0],
   userTotal |-> 0, userMoveCounts |-> <<>>, userToSquareCounts |-> <<>>,
   oppTotal |-> 0, oppMoveCounts |-> <<>>, oppToSquareCounts |-> <<>>,
   userWhiteTotal |-> 0, userWhiteMoveCounts |-> <<>>, userWhiteToSquareCounts |-> <<>>,
   userBlackTotal |-> 0, userBlackMoveCounts |-> <<>>, userBlackToSquareCounts |-> <<>>,
   oppWhiteTotal |-> 0, oppWhiteMoveCounts |-> <<>>, oppWhiteToSquareCounts |-> <<>>,
   oppBlackTotal |-> 0, oppBlackMoveCounts |-> <<>>, oppBlackToSquareCounts |-> <<>>]

\* new Map() of the constructor.
EmptyIndex == [f \in {} |-> EmptyBucket]

\* this.index.get(fen), or the fresh bucket that is then stored under fen.
BucketOrNew(idx, fen) == IF fen \in DOMAIN idx THEN idx[fen] ELSE EmptyBucket

\* A variant of IndexSet that keeps only the bucket it is given.
IndexSet_OnlyLatest(idx, fen, b) == [f \in {fen} |-> b]

\* this.index with fen bound to bucket b.
IndexSet(idx, fen, b) ==
  [f \in DOMAIN idx \cup {fen} |-> IF f = fen THEN b ELSE idx[f]]

\* `${params.from}${params.to}${params.promotion ?? ''}`; an undefined promotion is <<>>.
MoveKey(params) == params.from \o params.to \o params.promotion

\* A variant of AddGlobal that forgets the from-square map.
AddGlobal_NoFromSquare(b, key, params) ==
  [b EXCEPT !.total = @ + 1,
            !.moveCounts = MapInc(@, key),
            !.toSquareCounts = MapInc(@, params.to)]

\* addMove, the global counters.
AddGlobal(b, key, params) ==
  [b EXCEPT !.total = @ + 1,
            !.moveCounts = MapInc(@, key),
            !.toSquareCounts = MapInc(@, params.to),
            !.fromSquareCounts = MapInc(@, params.from)]

\* A variant of AddRole whose black branches test the wrong color letter, so a
\* black mover gets its role total but no role-and-color total.
AddRole_BlackMistyped(b, key, params, byUser, color) ==
  IF byUser = "true" THEN
    LET u == [b EXCEPT !.userTotal = @ + 1,
                       !.userMoveCounts = MapInc(@, key),
                       !.userToSquareCounts = MapInc(@, params.to)]
    IN  IF color = "w" THEN
          [u EXCEPT !.userWhiteTotal = @ + 1,
                    !.userWhiteMoveCounts = MapInc(@, key),
                    !.userWhiteToSquareCounts = MapInc(@, params.to)]
        ELSE u
  ELSE IF byUser = "false" THEN
    LET o == [b EXCEPT !.oppTotal = @ + 1,
                       !.oppMoveCounts = MapInc(@, key),
                       !.oppToSquareCounts = MapInc(@, params.to)]
    IN  IF color = "w" THEN
          [o EXCEPT !.oppWhiteTotal = @ + 1,
                    !.oppWhiteMoveCounts = MapInc(@, key),
                    !.oppWhiteToSquareCounts = MapInc(@, params.to)]
        ELSE o
  ELSE b

\* A variant of AddRole whose opponent-black branch leaves out the to-square map.
AddRole_NoOppBlackToSquare(b, key, params, byUser, color) ==
  IF byUser = "true" THEN
    LET u == [b EXCEPT !.userTotal = @ + 1,
                       !.userMoveCounts = MapInc(@, key),
                       !.userToSquareCounts = MapInc(@, params.to)]
    IN  IF color = "w" THEN
          [u EXCEPT !.userWhiteTotal = @ + 1,
                    !.userWhiteMoveCounts = MapInc(@, key),
                    !.userWhiteToSquareCounts = MapInc(@, params.to)]
        ELSE IF color = "b" THEN
          [u EXCEPT !.userBlackTotal = @ + 1,
                    !.userBlackMoveCounts = MapInc(@, key),
                    !.userBlackToSquareCounts = MapInc(@, params.to)]
        ELSE u
  ELSE IF byUser = "false" THEN
    LET o == [b EXCEPT !.oppTotal = @ + 1,
                       !.oppMoveCounts = MapInc(@, key),
                       !.oppToSquareCounts = MapInc(@, params.to)]
    IN  IF color = "w" THEN
          [o EXCEPT !.oppWhiteTotal = @ + 1,
                    !.oppWhiteMoveCounts = MapInc(@, key),
                    !.oppWhiteToSquareCounts = MapInc(@, params.to)]
        ELSE IF color = "b" THEN
          [o EXCEPT !.oppBlackTotal = @ + 1,
                    !.oppBlackMoveCounts = MapInc(@, key)]
        ELSE o
  ELSE b

\* addMove, the role and role-and-color counters.  byUser is "true", "false" or
\* "undefined"; color is "w", "b" or "undefined".
AddRole(b, key, params, byUser, color) ==
  IF byUser = "true" THEN
    LET u == [b EXCEPT !.userTotal = @ + 1,
                       !.userMoveCounts = MapInc(@, key),
                       !.userToSquareCounts = MapInc(@, params.to)]
    IN  IF color = "w" THEN
          [u EXCEPT !.userWhiteTotal = @ + 1,
                    !.userWhiteMoveCounts = MapInc(@, key),
                    !.userWhiteToSquareCounts = MapInc(@, params.to)]
        ELSE IF color = "b" THEN
          [u EXCEPT !.userBlackTotal = @ + 1,
                    !.userBlackMoveCounts = MapInc(@, key),
                    !.userBlackToSquareCounts = MapInc(@, params.to)]
        ELSE u
  ELSE IF byUser = "false" THEN
    LET o == [b EXCEPT !.oppTotal = @ + 1,
                       !.oppMoveCounts = MapInc(@, key),
                       !.oppToSquareCounts = MapInc(@, params.to)]
    IN  IF color = "w" THEN
          [o EXCEPT !.oppWhiteTotal = @ + 1,
                    !.oppWhiteMoveCounts = MapInc(@, key),
                    !.oppWhiteToSquareCounts = MapInc(@, params.to)]
        ELSE IF color = "b" THEN
          [o EXCEPT !.oppBlackTotal = @ + 1,
                    !.oppBlackMoveCounts = MapInc(@, key),
                    !.oppBlackToSquareCounts = MapInc(@, params.to)]
        ELSE o
  ELSE b

\* A variant of AddMove that tests byUser for truthiness and not for === false: a ply
\* without a role is counted as the opponent's.
AddMove_UndefinedIsOpponent(idx, fen, params, byUser, color) ==
  LET key == MoveKey(params)
  IN  IndexSet(idx, fen,
               AddRole(AddGlobal(BucketOrNew(idx, fen), key, params),
                       key, params, IF byUser = "true" THEN "true" ELSE "false", color))

\* MoveIndex.addMove(fen, params, byUser?, color?)
AddMove(idx, fen, params, byUser, color) ==
  LET key == MoveKey(params)
  IN  IndexSet(idx, fen,
               AddRole(AddGlobal(BucketOrNew(idx, fen), key, params),
                       key, params, byUser, color))

\* A variant of AddResult that records an outcome only in a bucket that has none yet.
AddResult_OncePerBucket(idx, fen, outcome) ==
  LET b == BucketOrNew(idx, fen)
  IN  IF b.results.win + b.results.loss + b.results.draw > 0 THEN IndexSet(idx, fen, b)
      ELSE IndexSet(idx, fen, [b EXCEPT !.results[outcome] = @ + 1])

\* A variant of AddResult that counts the outcome twice.
AddResult_Twice(idx, fen, outcome) ==
  IndexSet(idx, fen, [BucketOrNew(idx, fen) EXCEPT !.results[outcome] = @ + 2])

\* MoveIndex.addResult(fen, outcome)
AddResult(idx, fen, outcome) ==
  IndexSet(idx, fen, [BucketOrNew(idx, fen) EXCEPT !.results[outcome] = @ + 1])

\* ---------------------------------------------------------------- ingestion

\* The loop of ingestUciMoves over the rest of the list: the index afterwards and the
\* identifiers addMove was called for.
RECURSIVE UciLoop(_, _, _, _)
UciLoop(idx, chess, rest, visited) ==
  IF rest = <<>> THEN [index |-> idx, visited |-> visited]
  ELSE
    LET uci       == Head(rest)
        fenBefore == Fen(chess)
        from      == Slice(uci, 0, 2)
        to        == Slice(uci, 2, 4)
        promotion == IF Len(uci) > 4 THEN Slice(uci, 4, 5) ELSE <<>>
        params    == [from |-> from, to |-> to, promotion |-> promotion]
        idx1      == AddMove(idx, fenBefore, params, "undefined", "undefined")
        ms        == ObjectMatches(chess, from, to)
    IN  IF ms = {}
        THEN [index |-> idx1, visited |-> visited \cup {fenBefore}]
        ELSE UciLoop(idx1, MakeMove(chess, CHOOSE m \in ms : TRUE), Tail(rest),
                     visited \cup {fenBefore})

\* MoveIndex.ingestUciMoves(uciMoves)
IngestUciMoves(idx, uciMoves) == UciLoop(idx, NewChess, uciMoves, {})

\* The loop of ingestSanMoves.
RECURSIVE SanLoop(_, _, _, _)
SanLoop(idx, chess, rest, visited) ==
  IF rest = <<>> THEN [index |-> idx, visited |-> visited]
  ELSE
    LET fenBefore == Fen(chess)
        ms        == SanMatches(chess, Head(rest))
    IN  IF ms = {}
        THEN [index |-> idx, visited |-> visited]
        ELSE
          LET move   == CHOOSE m \in ms : TRUE
              params == [from |-> move.from, to |-> move.to, promotion |-> <<>>]
          IN  SanLoop(AddMove(idx, fenBefore, params, "undefined", "undefined"),
                      MakeMove(chess, move), Tail(rest), visited \cup {fenBefore})

\* MoveIndex.ingestSanMoves(sanMoves)
IngestSanMoves(idx, sanMoves) == SanLoop(idx, NewChess, sanMoves, {})

\* chess.loadPgn(pgn, {strict: false}) succeeds: every move of the record is legal in turn.
RECURSIVE PgnLoads(_, _)
PgnLoads(chess, rest) ==
  IF rest = <<>> THEN TRUE
  ELSE LET ms == SanMatches(chess, Head(rest))
       IN  ms # {} /\ PgnLoads(MakeMove(chess, CHOOSE m \in ms : TRUE), Tail(rest))

\* s.trim().toLowerCase() on the names of the model.
TrimLower(s) ==
  CASE s = " Alice " -> "alice"
    [] s = "ALICE "  -> "alice"
    [] s = "alice"   -> "alice"
    [] s = "Carol"   -> "carol"
    [] OTHER         -> s

\* A variant of Outcome that reads the result tag from White's side whatever color the
\* identity played.
Outcome_WhiteView(resultTag, userLower, whiteName, blackName) ==
  IF resultTag \in {"1-0", "0-1", "1/2-1/2"} THEN
    IF userLower # whiteName /\ userLower # blackName THEN "skip"
    ELSE IF resultTag = "1/2-1/2" THEN "draw"
    ELSE IF resultTag = "1-0" THEN "win"
    ELSE "loss"
  ELSE "none"

\* The outcome of ingestGamePgn: "skip" is the early return, "none" is null.
Outcome(resultTag, userLower, whiteName, blackName) ==
  IF resultTag \in {"1-0", "0-1", "1/2-1/2"} THEN
    LET userIsWhite == userLower = whiteName
        userIsBlack == userLower = blackName
    IN  IF ~userIsWhite /\ ~userIsBlack THEN "skip"
        ELSE IF resultTag = "1/2-1/2" THEN "draw"
        ELSE IF resultTag = "1-0" THEN (IF userIsWhite THEN "win" ELSE "loss")
        ELSE (IF userIsBlack THEN "win" ELSE "loss")
  ELSE "none"

\* A variant of ByUser that looks at the identity's color alone, not at the mover's:
\* every ply of a game the identity played as White is taken for the identity's.
ByUser_IgnoresMover(colorToMove, userLower, whiteName, blackName) ==
  IF userLower = whiteName THEN "true" ELSE "false"

\* A variant of ByUser that leaves the moves of the other player without a role.
ByUser_OpponentUnset(colorToMove, userLower, whiteName, blackName) ==
  IF (colorToMove = "w" /\ userLower = whiteName) \/ (colorToMove = "b" /\ userLower = blackName)
  THEN "true" ELSE "undefined"

\* byUser of the replay loop.
ByUser(colorToMove, userLower, whiteName, blackName) ==
  IF (colorToMove = "w" /\ userLower = whiteName) \/ (colorToMove = "b" /\ userLower = blackName)
  THEN "true" ELSE "false"

\* A variant of GameLoop that takes "seen" for "something was seen": the outcome is
\* recorded for the first replayed position only.
RECURSIVE GameLoop_OutcomeOnce(_, _, _, _, _, _, _)
GameLoop_OutcomeOnce(idx, walker, rest, seenThisGame, names, outcome, visited) ==
  IF rest = <<>> THEN [index |-> idx, visited |-> visited]
  ELSE
    LET fenBefore == Fen(walker)
        ms        == SanMatches(walker, Head(rest))
    IN  IF ms = {}
        THEN [index |-> idx, visited |-> visited]
        ELSE
          LET m      == CHOOSE x \in ms : TRUE
              params == [from |-> m.from, to |-> m.to, promotion |-> <<>>]
              byUser == ByUser(m.color, names[1], names[2], names[3])
              idx1   == AddMove(idx, fenBefore, params, byUser, m.color)
              record == seenThisGame = {} /\ outcome # "none"
              idx2   == IF record THEN AddResult(idx1, fenBefore, outcome) ELSE idx1
              seen2  == IF record THEN seenThisGame \cup {fenBefore} ELSE seenThisGame
          IN  GameLoop_OutcomeOnce(idx2, MakeMove(walker, m), Tail(rest), seen2, names,
                                   outcome, visited \cup {fenBefore})

\* A variant of GameLoop that records the outcome under the position the move leads
\* to, for which addMove may not have made a bucket.
RECURSIVE GameLoop_ResultAfterMove(_, _, _, _, _, _, _)
GameLoop_ResultAfterMove(idx, walker, rest, seenThisGame, names, outcome, visited) ==
  IF rest = <<>> THEN [index |-> idx, visited |-> visited]
  ELSE
    LET fenBefore == Fen(walker)
        ms        == SanMatches(walker, Head(rest))
    IN  IF ms = {}
        THEN [index |-> idx, visited |-> visited]
        ELSE
          LET m      == CHOOSE x \in ms : TRUE
              params == [from |-> m.from, to |-> m.to, promotion |-> <<>>]
              byUser == ByUser(m.color, names[1], names[2], names[3])
              idx1   == AddMove(idx, fenBefore, params, byUser, m.color)
              after  == Fen(MakeMove(walker, m))
              record == after \notin seenThisGame /\ outcome # "none"
              idx2   == IF record THEN AddResult(idx1, after, outcome) ELSE idx1
              seen2  == IF record THEN seenThisGame \cup {after} ELSE seenThisGame
          IN  GameLoop_ResultAfterMove(idx2, MakeMove(walker, m), Tail(rest), seen2,
                                       names, outcome, visited \cup {fenBefore})

\* A variant of GameLoop that passes the color the identity plays, not the mover's.
RECURSIVE GameLoop_IdentityColor(_, _, _, _, _, _, _)
GameLoop_IdentityColor(idx, walker, rest, seenThisGame, names, outcome, visited) ==
  IF rest = <<>> THEN [index |-> idx, visited |-> visited]
  ELSE
    LET fenBefore == Fen(walker)
        ms        == SanMatches(walker, Head(rest))
    IN  IF ms = {}
        THEN [index |-> idx, visited |-> visited]
        ELSE
          LET m      == CHOOSE x \in ms : TRUE
              params == [from |-> m.from, to |-> m.to, promotion |-> <<>>]
              byUser == ByUser(m.color, names[1], names[2], names[3])
              idx1   == AddMove(idx, fenBefore, params, byUser,
                                IF names[1] = names[2] THEN "w" ELSE "b")
              record == fenBefore \notin seenThisGame /\ outcome # "none"
              idx2   == IF record THEN AddResult(idx1, fenBefore, outcome) ELSE idx1
              seen2  == IF record THEN seenThisGame \cup {fenBefore} ELSE seenThisGame
          IN  GameLoop_IdentityColor(idx2, MakeMove(walker, m), Tail(rest), seen2, names,
                                     outcome, visited \cup {fenBefore})

\* The replay loop of ingestGamePgn; names is <<userLower, whiteName, blackName>>.
RECURSIVE GameLoop(_, _, _, _, _, _, _)
GameLoop(idx, walker, rest, seenThisGame, names, outcome, visited) ==
  IF rest = <<>> THEN [index |-> idx, visited |-> visited]
  ELSE
    LET fenBefore == Fen(walker)
        ms        == SanMatches(walker, Head(rest))
    IN  IF ms = {}
        THEN [index |-> idx, visited |-> visited]
        ELSE
          LET m      == CHOOSE x \in ms : TRUE
              params == [from |-> m.from, to |-> m.to, promotion |-> <<>>]
              byUser == ByUser(m.color, names[1], names[2], names[3])
              idx1   == AddMove(idx, fenBefore, params, byUser, m.color)
              record == fenBefore \notin seenThisGame /\ outcome # "none"
              idx2   == IF record THEN AddResult(idx1, fenBefore, outcome) ELSE idx1
              seen2  == IF record THEN seenThisGame \cup {fenBefore} ELSE seenThisGame
          IN  GameLoop(idx2, MakeMove(walker, m), Tail(rest), seen2, names, outcome,
                       visited \cup {fenBefore})

\* A variant of IngestGamePgn that skips the whole game when no outcome is resolved.
IngestGamePgn_SkipsUndetermined(idx, username, pgn) ==
  IF ~PgnLoads(NewChess, pgn.moves) THEN [index |-> idx, visited |-> {}]
  ELSE
    LET userLower == TrimLower(username)
        whiteName == TrimLower(pgn.White)
        blackName == TrimLower(pgn.Black)
        outcome   == Outcome(pgn.Result, userLower, whiteName, blackName)
    IN  IF outcome \in {"skip", "none"} THEN [index |-> idx, visited |-> {}]
        ELSE GameLoop(idx, NewChess, pgn.moves, {},
                      <<userLower, whiteName, blackName>>, outcome, {})

\* MoveIndex.ingestGamePgn(username, pgn); pgn is the record's headers and SAN moves.
IngestGamePgn(idx, username, pgn) ==
  IF ~PgnLoads(NewChess, pgn.moves) THEN [index |-> idx, visited |-> {}]
  ELSE
    LET userLower == TrimLower(username)
        whiteName == TrimLower(pgn.White)
        blackName == TrimLower(pgn.Black)
        outcome   == Outcome(pgn.Result, userLower, whiteName, blackName)
    IN  IF outcome = "skip" THEN [index |-> idx, visited |-> {}]
        ELSE GameLoop(idx, NewChess, pgn.moves, {},
                      <<userLower, whiteName, blackName>>, outcome, {})

\* ---------------------------------------------------------------- queries

\* null, the result of getBucket for a position without a bucket.
Null == [null |-> TRUE]

\* MoveIndex.size
Size(idx) == Cardinality(DOMAIN idx)

\* MoveIndex.getBucket(fen): the value of what it returns, at the time of the return.
GetBucket(idx, fen) == IF fen \in DOMAIN idx THEN idx[fen] ELSE Null

\* A variant of GetResultStats that reports the number of recorded plies as the total.
GetResultStats_CountsPlies(idx, fen) ==
  IF fen \notin DOMAIN idx THEN [win |-> 0, loss |-> 0, draw |-> 0, total |-> 0]
  ELSE LET res == idx[fen].results
       IN  [win |-> res.win, loss |-> res.loss, draw |-> res.draw, total |-> idx[fen].total]

\* MoveIndex.getResultStats(fen)
GetResultStats(idx, fen) ==
  IF fen \notin DOMAIN idx THEN [win |-> 0, loss |-> 0, draw |-> 0, total |-> 0]
  ELSE LET res == idx[fen].results
       IN  [win |-> res.win, loss |-> res.loss, draw |-> res.draw,
            total |-> res.win + res.loss + res.draw]

\* The default value of getTopMoves' limit.
DefaultLimit == 8

\* A variant of InsertDesc that puts an entry before the entries of equal count.
InsertDesc_BeforeEqual(sorted, p) ==
  LET n == Cardinality({i \in 1..Len(sorted) : sorted[i][2] > p[2]})
  IN  SubSeq(sorted, 1, n) \o <<p>> \o SubSeq(sorted, n + 1, Len(sorted))

\* One step of the stable sort by (a, b) => b.c - a.c: p goes after every entry whose
\* count is at least its own.
InsertDesc(sorted, p) ==
  LET n == Cardinality({i \in 1..Len(sorted) : sorted[i][2] >= p[2]})
  IN  SubSeq(sorted, 1, n) \o <<p>> \o SubSeq(sorted, n + 1, Len(sorted))

\* pairs.sort((a, b) => b.c - a.c): descending by count, stable.
RECURSIVE SortDesc(_)
SortDesc(pairs) ==
  IF pairs = <<>> THEN <<>>
  ELSE InsertDesc(SortDesc(SubSeq(pairs, 1, Len(pairs) - 1)), pairs[Len(pairs)])

\* MoveIndex.getTopMoves(fen, limit), for limit >= 0; an undefined promotion is <<>>.
GetTopMoves(idx, fen, limit) ==
  IF fen \notin DOMAIN idx THEN <<>>
  ELSE
    LET sorted == SortDesc(idx[fen].moveCounts)
        top    == Slice(sorted, 0, limit)
    IN  [i \in 1..Len(top) |->
           LET k == top[i][1]
           IN  [from |-> Slice(k, 0, 2), to |-> Slice(k, 2, 4),
                promotion |-> IF Len(k) > 4 THEN SliceFrom(k, 4) ELSE <<>>,
                count |-> top[i][2]]]

\* ---------------------------------------------------------------- serialized form

\* A variant of MapFromEntries for a container that lists the newest key first.
RECURSIVE MapFromEntries_NewestFirst(_)
MapFromEntries_NewestFirst(entries) ==
  IF entries = <<>> THEN <<>>
  ELSE LET m == MapFromEntries_NewestFirst(SubSeq(entries, 1, Len(entries) - 1))
           e == entries[Len(entries)]
       IN  IF MapHas(m, e[1]) THEN MapSet(m, e[1], e[2]) ELSE <<e>> \o m

\* new Map(entries): the entries are set in turn.
RECURSIVE MapFromEntries(_)
MapFromEntries(entries) ==
  IF entries = <<>> THEN <<>>
  ELSE LET e == entries[Len(entries)]
       IN  MapSet(MapFromEntries(SubSeq(entries, 1, Len(entries) - 1)), e[1], e[2])

\* MoveIndex.serialize(); Array.from(map.entries()) is the map's entry list.
Serialize(idx) ==
  [f \in DOMAIN idx |->
     LET b == idx[f]
     IN  [t |-> b.total, m |-> b.moveCounts, to |-> b.toSquareCounts,
          fr |-> b.fromSquareCounts,
          r |-> <<b.results.win, b.results.loss, b.results.draw>>,
          ut |-> b.userTotal, um |-> b.userMoveCounts, uto |-> b.userToSquareCounts,
          ot |-> b.oppTotal, om |-> b.oppMoveCounts, oto |-> b.oppToSquareCounts,
          uwt |-> b.userWhiteTotal, uwm |-> b.userWhiteMoveCounts,
          uwto |-> b.userWhiteToSquareCounts,
          ubt |-> b.userBlackTotal, ubm |-> b.userBlackMoveCounts,
          ubto |-> b.userBlackToSquareCounts,
          owt |-> b.oppWhiteTotal, owm |-> b.oppWhiteMoveCounts,
          owto |-> b.oppWhiteToSquareCounts,
          obt |-> b.oppBlackTotal, obm |-> b.oppBlackMoveCounts,
          obto |-> b.oppBlackToSquareCounts]]

\* s.x of a record that may omit the field: "undefined" when it does.
Field(s, x) == IF x \in DOMAIN s THEN s[x] ELSE "undefined"

\* s.x ?? d
FieldOr(s, x, d) == IF x \in DOMAIN s THEN s[x] ELSE d

\* s.r?.[i] ?? 0, with i counted from 1.
ResultAt(s, i) == IF "r" \in DOMAIN s /\ i <= Len(s.r) THEN s.r[i] ELSE 0

\* MoveIndex.fromSerialized(data): the index of the MoveIndex it returns.  new Map of
\* an omitted field is the empty map.
FromSerialized(data) ==
  [f \in DOMAIN data |->
     LET s == data[f]
     IN  [total |-> Field(s, "t"),
          moveCounts |-> MapFromEntries(FieldOr(s, "m", <<>>)),
          toSquareCounts |-> MapFromEntries(FieldOr(s, "to", <<>>)),
          fromSquareCounts |-> MapFromEntries(FieldOr(s, "fr", <<>>)),
          results |-> [win |-> ResultAt(s, 1), loss |-> ResultAt(s, 2),
                       draw |-> ResultAt(s, 3)],
          userTotal |-> FieldOr(s, "ut", 0),
          userMoveCounts |-> MapFromEntries(FieldOr(s, "um", <<>>)),
          userToSquareCounts |-> MapFromEntries(FieldOr(s, "uto", <<>>)),
          oppTotal |-> FieldOr(s, "ot", 0),
          oppMoveCounts |-> MapFromEntries(FieldOr(s, "om", <<>>)),
          oppToSquareCounts |-> MapFromEntries(FieldOr(s, "oto", <<>>)),
          userWhiteTotal |-> FieldOr(s, "uwt", 0),
          userWhiteMoveCounts |-> MapFromEntries(FieldOr(s, "uwm", <<>>)),
          userWhiteToSquareCounts |-> MapFromEntries(FieldOr(s, "uwto", <<>>)),
          userBlackTotal |-> FieldOr(s, "ubt", 0),
          userBlackMoveCounts |-> MapFromEntries(FieldOr(s, "ubm", <<>>)),
          userBlackToSquareCounts |-> MapFromEntries(FieldOr(s, "ubto", <<>>)),
          oppWhiteTotal |-> FieldOr(s, "owt", 0),
          oppWhiteMoveCounts |-> MapFromEntries(FieldOr(s, "owm", <<>>)),
          oppWhiteToSquareCounts |-> MapFromEntries(FieldOr(s, "owto", <<>>)),
          oppBlackTotal |-> FieldOr(s, "obt", 0),
          oppBlackMoveCounts |-> MapFromEntries(FieldOr(s, "obm", <<>>)),
          oppBlackToSquareCounts |-> MapFromEntries(FieldOr(s, "obto", <<>>))]]

\* ---------------------------------------------------------------- inputs

SeqsUpTo(S, n) == UNION {[1..k -> S] : k \in 0..n}

\* UCI strings offered to ingestUciMoves.
UciAlphabet == {E2 \o E4, E7 \o E5}

\* SAN strings offered to ingestSanMoves.
SanAlphabet == {"e4", "e5"}

UciLists == SeqsUpTo(UciAlphabet, MaxPlies)

SanLists == SeqsUpTo(SanAlphabet, MaxPlies)

\* Move texts of game records: two legal lines, and one that loadPgn rejects.
PgnMoves == {<<"e4", "e5">>, <<"Nf3">>, <<"e5">>}

Usernames == {" Alice "}

\* <<White, Black>> header pairs.
Players == {<<"alice", "bob">>, <<"bob", "ALICE ">>, <<"bob", "Carol">>}

ResultTags == {"1-0", "0-1", "1/2-1/2", "*"}

Pgns ==
  {[White |-> pl[1], Black |-> pl[2], Result |-> r, moves |-> ms] :
     pl \in Players, r \in ResultTags, ms \in PgnMoves}

\* ---------------------------------------------------------------- the state machine

\* What the caller of a query holds: the operation and its position argument, the
\* value of the result when it was returned, whether the result is the bucket object
\* the index stores under that position (live), and the value of the result object
\* when it is not.
Handle(op, fen, returned, live) ==
  [op |-> op, fen |-> fen, returned |-> returned, live |-> live, value |-> returned]

\* No query has been made.
NoHandle == Handle("none", Null, Null, FALSE)

\* The value the caller reads now through what it holds: the fields of a live bucket
\* are the fields the index updates.
ValueOf(h, idx) == IF h.live THEN idx[h.fen] ELSE h.value

\* What is held, once the index has dropped its buckets.
Detached(h, idx) ==
  IF h.live THEN [h EXCEPT !.live = FALSE, !.value = idx[h.fen]] ELSE h

\* No download is being processed.
NoBatch == [username |-> "", lines |-> <<>>, at |-> 0]

\* No serialized data.
NoData == [f \in {} |-> [t |-> 0]]

\* A localStorage that holds nothing.
NoStorage == [k \in {} |-> <<>>]

\* new StockfishEngine(): the fields as their initializers set them (0 is null).
\* workers are the Worker objects made so far and promises the promises made by
\* new Promise in init, both numbered from 1; returned holds the promises init has
\* returned to its callers (0: a call that returned with nothing to wait for);
\* posted is the number of commands the last evaluateFen call posted.
NewEngine ==
  [worker |-> 0, ready |-> FALSE, readyPromise |-> 0, resolveReady |-> 0,
   workers |-> <<>>, promises |-> <<>>, returned |-> {}, posted |-> 0]

Init ==
  /\ index = EmptyIndex
  /\ bareTouched = {}
  /\ gamesVisited = [f \in {} |-> 0]
  /\ lastOp = "new"
  /\ lastArg = <<>>
  /\ recording = FALSE
  /\ nOps = 0
  /\ discarded = 0
  /\ held = NoHandle
  /\ pending = NoBatch
  /\ totalGames = 0
  /\ stored = NoData
  /\ localStorage = NoStorage
  /\ engine = NewEngine

\* The same machine, with the arguments of each call kept in lastArg.
InitRecording ==
  /\ index = EmptyIndex
  /\ bareTouched = {}
  /\ gamesVisited = [f \in {} |-> 0]
  /\ lastOp = "new"
  /\ lastArg = <<>>
  /\ recording = TRUE
  /\ nOps = 0
  /\ discarded = 0
  /\ held = NoHandle
  /\ pending = NoBatch
  /\ totalGames = 0
  /\ stored = NoData
  /\ localStorage = NoStorage
  /\ engine = NewEngine

\* gamesVisited after one more game that replayed a ply from each identifier of visited.
CountVisit(gv, visited) ==
  [f \in DOMAIN gv \cup visited |->
     (IF f \in DOMAIN gv THEN gv[f] ELSE 0) + (IF f \in visited THEN 1 ELSE 0)]

CallIngestUciMoves ==
  \E uciMoves \in UciLists :
    /\ nOps < MaxOps
    /\ LET r == IngestUciMoves(index, uciMoves)
       IN  /\ index' = r.index
           /\ bareTouched' = bareTouched \cup r.visited
    /\ lastOp' = "ingestUciMoves"
    /\ lastArg' = IF recording THEN uciMoves ELSE <<>>
    /\ nOps' = nOps + 1
    /\ discarded' = 0
    /\ UNCHANGED <<gamesVisited, recording, held, pending, totalGames, stored,
                   localStorage, engine>>

CallIngestSanMoves ==
  \E sanMoves \in SanLists :
    /\ nOps < MaxOps
    /\ LET r == IngestSanMoves(index, sanMoves)
       IN  /\ index' = r.index
           /\ bareTouched' = bareTouched \cup r.visited
    /\ lastOp' = "ingestSanMoves"
    /\ lastArg' = IF recording THEN sanMoves ELSE <<>>
    /\ nOps' = nOps + 1
    /\ discarded' = 0
    /\ UNCHANGED <<gamesVisited, recording, held, pending, totalGames, stored,
                   localStorage, engine>>

CallIngestGamePgn ==
  \E username \in Usernames, pgn \in Pgns :
    /\ nOps < MaxOps
    /\ LET r == IngestGamePgn(index, username, pgn)
       IN  /\ index' = r.index
           /\ gamesVisited' = CountVisit(gamesVisited, r.visited)
    /\ lastOp' = "ingestGamePgn"
    /\ lastArg' = IF recording THEN [username |-> username, pgn |-> pgn] ELSE <<>>
    /\ nOps' = nOps + 1
    /\ discarded' = 0
    /\ UNCHANGED <<bareTouched, recording, held, pending, totalGames, stored,
                   localStorage, engine>>

\* A variant of CallClear that resets the counters of every bucket and keeps the buckets.
CallClear_KeepsBuckets ==
  /\ nOps < MaxOps
  /\ index' = [f \in DOMAIN index |-> EmptyBucket]
  /\ discarded' = 0
  /\ held' = held
  /\ bareTouched' = {}
  /\ gamesVisited' = [f \in {} |-> 0]
  /\ lastOp' = "clear"
  /\ lastArg' = <<>>
  /\ nOps' = nOps + 1
  /\ UNCHANGED <<recording, pending, totalGames, stored, localStorage, engine>>

\* MoveIndex.clear().  Map.clear() drops the entries of the map; a bucket object that
\* a caller still holds keeps its fields and is no longer the index's.
CallClear ==
  /\ nOps < MaxOps
  /\ index' = EmptyIndex
  /\ discarded' = Size(index)
  /\ held' = Detached(held, index)
  /\ bareTouched' = {}
  /\ gamesVisited' = [f \in {} |-> 0]
  /\ lastOp' = "clear"
  /\ lastArg' = <<>>
  /\ nOps' = nOps + 1
  /\ UNCHANGED <<recording, pending, totalGames, stored, localStorage, engine>>

Next ==
  \/ CallIngestUciMoves
  \/ CallIngestSanMoves
  \/ CallIngestGamePgn
  \/ CallClear

Spec == Init /\ [][Next]_vars

SpecRecording == InitRecording /\ [][Next]_vars

\* An index that is fed game records only, as fetchAndIndexUserGames feeds it.
NextGames ==
  \/ CallIngestGamePgn
  \/ CallClear

SpecGames == Init /\ [][NextGames]_vars

\* The board after the SAN moves of a legal line.
RECURSIVE BoardAfter(_, _)
BoardAfter(chess, sans) ==
  IF sans = <<>> THEN chess
  ELSE BoardAfter(MakeMove(chess, CHOOSE m \in SanMatches(chess, Head(sans)) : TRUE),
                  Tail(sans))

\* Positions asked about: the start, and the position after 1. e4 e5.
QueryFens ==
  {Fen(BoardAfter(NewChess, sans)) : sans \in {<<>>, <<"e4", "e5">>}}

QueryOps == {"getBucket", "getTopMoves", "getResultStats", "serialize", "size"}

\* The frame of a query: a query assigns to nothing but its result.
Query(op, fen, returned, live) ==
  /\ nOps < MaxOps
  /\ held' = Handle(op, fen, returned, live)
  /\ lastOp' = op
  /\ lastArg' = IF recording /\ fen # Null THEN fen ELSE <<>>
  /\ nOps' = nOps + 1
  /\ discarded' = 0
  /\ UNCHANGED <<index, bareTouched, gamesVisited, recording, pending, totalGames,
                 stored, localStorage, engine>>

\* getBucket returns this.index.get(fen): the stored bucket object itself, or null.
CallGetBucket ==
  \E fen \in QueryFens :
    Query("getBucket", fen, GetBucket(index, fen), fen \in DOMAIN index)

\* getTopMoves returns a new array of new objects.
CallGetTopMoves ==
  \E fen \in QueryFens :
    Query("getTopMoves", fen, GetTopMoves(index, fen, DefaultLimit), FALSE)

\* getResultStats returns a new object of numbers.
CallGetResultStats ==
  \E fen \in QueryFens :
    Query("getResultStats", fen, GetResultStats(index, fen), FALSE)

\* serialize returns a new object of new records and new entry arrays.
CallSerialize == Query("serialize", Null, Serialize(index), FALSE)

\* size returns a number.
CallSize == Query("size", Null, Size(index), FALSE)

NextQueries ==
  \/ Next
  \/ CallGetBucket
  \/ CallGetTopMoves
  \/ CallGetResultStats
  \/ CallSerialize
  \/ CallSize

\* The index with its callers' queries.
SpecQueries == Init /\ [][NextQueries]_vars

\* The field names of a serialized bucket record.
SerializedFields ==
  {"t", "m", "to", "fr", "r", "ut", "um", "uto", "ot", "om", "oto",
   "uwt", "uwm", "uwto", "ubt", "ubm", "ubto", "owt", "owm", "owto", "obt", "obm", "obto"}

\* Serialized data in which every bucket record lacks the fields of omitted.
Omit(data, omitted) ==
  [f \in DOMAIN data |-> [x \in DOMAIN data[f] \ omitted |-> data[f][x]]]

\* What serialize gave for two indexes: one game of the identity, and the same game
\* followed by a bare move list.
SavedData ==
  LET game == [White |-> "alice", Black |-> "bob", Result |-> "1-0",
               moves |-> <<"e4", "e5">>]
      one  == IngestGamePgn(EmptyIndex, " Alice ", game).index
      two  == IngestSanMoves(one, <<"e4">>).index
  IN  {Serialize(one), Serialize(two)}

\* The subsets of S of at most n elements.
RECURSIVE SubsetsUpTo(_, _)
SubsetsUpTo(S, n) ==
  IF n = 0 THEN {{}}
  ELSE LET smaller == SubsetsUpTo(S, n - 1)
       IN  smaller \cup {o \cup {x} : o \in smaller, x \in S}

\* The saved data, complete or with up to MaxOmitted fields missing from its records.
StoredInputs ==
  {Omit(data, omitted) :
     data \in SavedData, omitted \in SubsetsUpTo(SerializedFields, MaxOmitted)}

InitLoad ==
  /\ index = EmptyIndex
  /\ bareTouched = {}
  /\ gamesVisited = [f \in {} |-> 0]
  /\ lastOp = "new"
  /\ lastArg = <<>>
  /\ recording = FALSE
  /\ nOps = 0
  /\ discarded = 0
  /\ held = NoHandle
  /\ pending = NoBatch
  /\ totalGames = 0
  /\ stored \in StoredInputs
  /\ localStorage = NoStorage
  /\ engine = NewEngine

\* MoveIndex.fromSerialized(stored): index becomes the index of the MoveIndex it returns.
CallFromSerialized ==
  /\ lastOp = "new"
  /\ index' = FromSerialized(stored)
  /\ lastOp' = "fromSerialized"
  /\ nOps' = nOps + 1
  /\ UNCHANGED <<bareTouched, gamesVisited, lastArg, recording, discarded, held, pending,
                 totalGames, stored, localStorage, engine>>

NextLoad == CallFromSerialized

\* An index rebuilt from serialized data.
SpecLoad == InitLoad /\ [][NextLoad]_vars

\* ---------------------------------------------------------------- fetchAndIndexUserGames

\* A line of the download is text that is no JSON, or JSON text: of null, of an object
\* without pgn, or of an object with pgn.
LineOfText == [kind |-> "text"]

LineOfJson(value) == [kind |-> "json", value |-> value]

\* JSON.parse(line): throws on text that is no JSON, returns the value otherwise.
JsonParse(line) ==
  IF line.kind = "json" THEN [ok |-> TRUE, value |-> line.value]
  ELSE [ok |-> FALSE, value |-> Null]

\* !obj || !obj.pgn
LacksPgn(obj) == obj = Null \/ "pgn" \notin DOMAIN obj

\* A variant of LineStep that gives up what was aggregated when a line does not parse.
LineStep_LosesIndexOnThrow(idx, username, line) ==
  LET p == JsonParse(line)
  IN  IF ~p.ok THEN [index |-> EmptyIndex, visited |-> {}, counted |-> 0]
      ELSE IF LacksPgn(p.value) THEN [index |-> idx, visited |-> {}, counted |-> 0]
      ELSE LET r == IngestGamePgn(idx, username, p.value.pgn)
           IN  [index |-> r.index, visited |-> r.visited, counted |-> 1]

\* The body of the loop for one line: the index afterwards, the identifiers a ply was
\* replayed from, and what is added to totalGames.
LineStep(idx, username, line) ==
  LET p == JsonParse(line)
  IN  IF ~p.ok THEN [index |-> idx, visited |-> {}, counted |-> 0]
      ELSE IF LacksPgn(p.value) THEN [index |-> idx, visited |-> {}, counted |-> 0]
      ELSE LET r == IngestGamePgn(idx, username, p.value.pgn)
           IN  [index |-> r.index, visited |-> r.visited, counted |-> 1]

\* Lines of a download: three that carry no game, one whose game text does not load,
\* and two with games of the user.
BatchLines ==
  {LineOfText, LineOfJson(Null), LineOfJson([id |-> "q1"]),
   LineOfJson([pgn |-> [White |-> "alice", Black |-> "bob", Result |-> "1-0",
                        moves |-> <<"e5">>]]),
   LineOfJson([pgn |-> [White |-> "alice", Black |-> "bob", Result |-> "1-0",
                        moves |-> <<"e4", "e5">>]]),
   LineOfJson([pgn |-> [White |-> "bob", Black |-> "ALICE ", Result |-> "1/2-1/2",
                        moves |-> <<"Nf3">>]])}

Batches == SeqsUpTo(BatchLines, MaxLines)

\* const index = new MoveIndex(); let totalGames = 0, with the lines of the response.
InitBatch ==
  /\ index = EmptyIndex
  /\ bareTouched = {}
  /\ gamesVisited = [f \in {} |-> 0]
  /\ lastOp = "new"
  /\ lastArg = <<>>
  /\ recording = FALSE
  /\ nOps = 0
  /\ discarded = 0
  /\ held = NoHandle
  /\ pending \in {[username |-> u, lines |-> ls, at |-> 0] : u \in Usernames, ls \in Batches}
  /\ totalGames = 0
  /\ stored = NoData
  /\ localStorage = NoStorage
  /\ engine = NewEngine

\* One iteration of for (const line of lines); the loop is left after the last line.
FetchLoopStep ==
  /\ pending.at < Len(pending.lines)
  /\ LET line == pending.lines[pending.at + 1]
         r    == LineStep(index, pending.username, line)
     IN  /\ index' = r.index
         /\ gamesVisited' = CountVisit(gamesVisited, r.visited)
         /\ totalGames' = totalGames + r.counted
  /\ pending' = [pending EXCEPT !.at = @ + 1]
  /\ lastOp' = "fetchLoop"
  /\ nOps' = nOps + 1
  /\ UNCHANGED <<bareTouched, lastArg, recording, discarded, held, stored, localStorage,
                 engine>>

NextBatch == FetchLoopStep

\* The loop of fetchAndIndexUserGames over the lines of one download.
SpecBatch == InitBatch /\ [][NextBatch]_vars

\* ---------------------------------------------------------------- localStorage

\* JSON values as the loader looks at them.  null is Null; a number, an array and the
\* top-level object are one-field records; the top-level object is the sequence of
\* its <<key, value>> members in order, since Object.values and Object.keys follow
\* that order; a bucket record is the record of its fields.
JsonNumber(n) == [number |-> n]

JsonArray(items) == [array |-> items]

JsonObject(entries) == [object |-> entries]

\* The empty string.
EmptyText == [kind |-> "empty"]

\* localStorage.getItem(key): the text under key, null when there is none.
GetItem(ls, key) == IF key \in DOMAIN ls THEN ls[key] ELSE Null

\* !raw: no text or the empty string.
Falsy(raw) == raw = Null \/ raw.kind = "empty"

\* v && typeof v === 'object'
IsObject(v) == DOMAIN v \cap {"null", "number"} = {}

\* Object.values(v) of an object or an array.
ObjectValues(v) ==
  IF "object" \in DOMAIN v THEN [i \in 1..Len(v.object) |-> v.object[i][2]]
  ELSE IF "array" \in DOMAIN v THEN v.array
  ELSE <<>>

\* ('ut' in firstBucket) && ('om' in firstBucket), and the same for 'uwt' and 'obm',
\* of the first value of the parsed object; false when there is no first value or it
\* is no object.
HasSplit(parsed, fields) ==
  /\ IsObject(parsed)
  /\ ObjectValues(parsed) # <<>>
  /\ LET firstBucket == ObjectValues(parsed)[1]
     IN  IsObject(firstBucket) /\ fields \subseteq DOMAIN firstBucket

\* The parsed top-level object as fromSerialized reads it: data[fen] for fen of
\* Object.keys(data).
DataOf(parsed) ==
  LET keys == {parsed.object[i][1] : i \in 1..Len(parsed.object)}
  IN  [f \in keys |-> (CHOOSE e \in {parsed.object[i] : i \in 1..Len(parsed.object)} :
                          e[1] = f)[2]]

\* fromSerialized throws a TypeError at s.t when a value of data is null.
FromSerializedThrows(data) == \E f \in DOMAIN data : data[f] = Null

\* The statements inside try of loadIndexFromLocalStorage: what they return, or that
\* they threw.
LoadBody(ls, key) ==
  LET raw == GetItem(ls, key)
  IN  IF Falsy(raw) THEN [threw |-> FALSE, value |-> Null]
      ELSE LET p == JsonParse(raw)
           IN  IF ~p.ok THEN [threw |-> TRUE, value |-> Null]
               ELSE IF ~HasSplit(p.value, {"ut", "om"}) \/ ~HasSplit(p.value, {"uwt", "obm"})
                    THEN [threw |-> FALSE, value |-> Null]
               ELSE IF FromSerializedThrows(DataOf(p.value))
                    THEN [threw |-> TRUE, value |-> Null]
               ELSE [threw |-> FALSE,
                     value |-> [index |-> FromSerialized(DataOf(p.value))]]

\* loadIndexFromLocalStorage(key): catch turns whatever was thrown into null.
LoadIndexFromLocalStorage(ls, key) ==
  LET r == LoadBody(ls, key)
  IN  IF r.threw THEN [threw |-> FALSE, value |-> Null] ELSE r

\* The key an index is kept under.
IndexKey == "lichess:alice:index"

\* Fields left out of the bucket records of the texts offered to the loader.
LoaderOmits == SubsetsUpTo({"ut", "om", "uwt", "obm", "um"}, MaxOmitted)

\* Values a text may hold for the bucket of position identifier f: null, a number, or
\* a record serialize wrote, complete or with fields left out.
BucketValues(f) ==
  {Null, JsonNumber(7)} \cup
  {[x \in DOMAIN data[f] \ omitted |-> data[f][x]] :
     data \in {d \in SavedData : f \in DOMAIN d}, omitted \in LoaderOmits}

\* The texts offered to the loader: the empty string, text that is no JSON, the JSON
\* texts of null, of a number, of an array and of an object with no member, and the
\* JSON texts of objects with one or two members under position identifiers.
RawInputs ==
  LET f1 == Fen(NewChess)
      f2 == Fen(BoardAfter(NewChess, <<"e4">>))
  IN  {EmptyText, LineOfText, LineOfJson(Null), LineOfJson(JsonNumber(7)),
       LineOfJson(JsonArray(<<>>)), LineOfJson(JsonObject(<<>>))} \cup
      {LineOfJson(JsonObject(<<<<f1, b1>>>>)) : b1 \in BucketValues(f1)} \cup
      {LineOfJson(JsonObject(<<<<f1, b1>>, <<f2, b2>>>>)) :
         b1 \in BucketValues(f1), b2 \in BucketValues(f2)} \cup
      {LineOfJson(JsonObject(<<<<f2, b2>>, <<f1, b1>>>>)) :
         b1 \in BucketValues(f1), b2 \in BucketValues(f2)}

\* A page that finds localStorage with nothing under the key, or with one of the texts.
InitLoader ==
  /\ index = EmptyIndex
  /\ bareTouched = {}
  /\ gamesVisited = [f \in {} |-> 0]
  /\ lastOp = "new"
  /\ lastArg = <<>>
  /\ recording = FALSE
  /\ nOps = 0
  /\ discarded = 0
  /\ held = NoHandle
  /\ pending = NoBatch
  /\ totalGames = 0
  /\ stored = NoData
  /\ localStorage \in {NoStorage} \cup {[k \in {IndexKey} |-> raw] : raw \in RawInputs}
  /\ engine = NewEngine

\* const cached = loadIndexFromLocalStorage(key): the caller holds what it returned.
CallLoadIndexFromLocalStorage ==
  /\ nOps < MaxOps
  /\ held' = Handle("loadIndexFromLocalStorage", IndexKey,
                    LoadIndexFromLocalStorage(localStorage, IndexKey), FALSE)
  /\ lastOp' = "loadIndexFromLocalStorage"
  /\ nOps' = nOps + 1
  /\ discarded' = 0
  /\ UNCHANGED <<index, bareTouched, gamesVisited, lastArg, recording, pending,
                 totalGames, stored, localStorage, engine>>

NextLoader == CallLoadIndexFromLocalStorage

\* The cache lookup of a page over what localStorage may hold.
SpecLoader == InitLoader /\ [][NextLoader]_vars

\* The sequences that list each element of S once.
RECURSIVE Orders(_)
Orders(S) ==
  IF S = {} THEN {<<>>}
  ELSE UNION {{<<x>> \o rest : rest \in Orders(S \ {x})} : x \in S}

\* JSON.stringify(data) of serialized data whose members are written in the order
\* keys: a field whose value is undefined is left out of its record; numbers, strings
\* and arrays are written as they are.
JsonStringify(data, keys) ==
  LineOfJson(JsonObject(
    [i \in 1..Len(keys) |->
       <<keys[i],
         [x \in {y \in DOMAIN data[keys[i]] :
                   ToString(data[keys[i]][y]) # ToString("undefined")} |->
            data[keys[i]][x]]>>]))

\* localStorage.setItem(key, text)
SetItem(ls, key, text) ==
  [k \in DOMAIN ls \cup {key} |-> IF k = key THEN text ELSE ls[k]]

\* The texts saveIndexToLocalStorage may write for idx: serialize lists the buckets in
\* the insertion order of the index, which the index of the model does not keep, so
\* every order stands for some history of insertions.
SavedTexts(idx) == {JsonStringify(Serialize(idx), keys) : keys \in Orders(DOMAIN idx)}

\* saveIndexToLocalStorage(key, index): setItem stores the text, or throws (the store
\* is full or refuses writes) and the catch leaves the store as it was.
CallSaveIndexToLocalStorage ==
  /\ nOps < MaxOps
  /\ \E text \in SavedTexts(index), accepted \in BOOLEAN :
       localStorage' = IF accepted THEN SetItem(localStorage, IndexKey, text)
                       ELSE localStorage
  /\ lastOp' = "saveIndexToLocalStorage"
  /\ nOps' = nOps + 1
  /\ discarded' = 0
  /\ UNCHANGED <<index, bareTouched, gamesVisited, lastArg, recording, held, pending,
                 totalGames, stored, engine>>

NextStore == Next \/ CallSaveIndexToLocalStorage \/ CallLoadIndexFromLocalStorage

\* An index that is built by ingestion, saved and looked up again.
SpecStore == Init /\ [][NextStore]_vars

\* ---------------------------------------------------------------- user history

HistoryKey == "lichess:userHistory"

\* current.slice(0, 20)
HistoryCap == 20

LowerLetters ==
  <<"a", "b", "c", "d", "e", "f", "g", "h", "i", "j", "k", "l", "m", "n", "o", "p", "q",
    "r", "s", "t", "u", "v", "w", "x">>

UpperLetters ==
  <<"A", "B", "C", "D", "E", "F", "G", "H", "I", "J", "K", "L", "M", "N", "O", "P", "Q",
    "R", "S", "T", "U", "V", "W", "X">>

\* String.prototype.toLowerCase on the characters of the model.
ToLowerCase(s) ==
  [i \in 1..Len(s) |->
     IF \E n \in 1..Len(UpperLetters) : UpperLetters[n] = s[i]
     THEN LowerLetters[CHOOSE n \in 1..Len(UpperLetters) : UpperLetters[n] = s[i]]
     ELSE s[i]]

RECURSIVE TrimStart(_)
TrimStart(s) == IF s # <<>> /\ s[1] = " " THEN TrimStart(Tail(s)) ELSE s

RECURSIVE TrimEnd(_)
TrimEnd(s) ==
  IF s # <<>> /\ s[Len(s)] = " " THEN TrimEnd(SubSeq(s, 1, Len(s) - 1)) ELSE s

\* String.prototype.trim
Trim(s) == TrimEnd(TrimStart(s))

\* A JSON string value.
JsonString(s) == [string |-> s]

\* JSON.stringify of an array of strings.
JsonStringifyNames(names) ==
  LineOfJson(JsonArray([i \in 1..Len(names) |-> JsonString(names[i])]))

\* The strings of the items that are strings: arr.filter((s) => typeof s === 'string').
RECURSIVE StringsOf(_)
StringsOf(items) ==
  IF items = <<>> THEN <<>>
  ELSE IF "string" \in DOMAIN Head(items)
       THEN <<Head(items).string>> \o StringsOf(Tail(items))
       ELSE StringsOf(Tail(items))

\* getUserHistory(): [] when nothing is stored, when the text does not parse (catch)
\* and when the value is no array.
GetUserHistory(ls) ==
  LET raw == GetItem(ls, HistoryKey)
  IN  IF Falsy(raw) THEN <<>>
      ELSE LET p == JsonParse(raw)
           IN  IF ~p.ok THEN <<>>
               ELSE IF "array" \notin DOMAIN p.value THEN <<>>
               ELSE StringsOf(p.value.array)

\* current.findIndex((x) => x.toLowerCase() === u.toLowerCase()), counted from 1; 0 for -1.
FindIndex(current, u) ==
  IF \E i \in 1..Len(current) : ToLowerCase(current[i]) = ToLowerCase(u)
  THEN CHOOSE i \in 1..Len(current) :
         /\ ToLowerCase(current[i]) = ToLowerCase(u)
         /\ \A j \in 1..(i - 1) : ToLowerCase(current[j]) # ToLowerCase(u)
  ELSE 0

\* current.splice(i, 1), with i counted from 1.
Splice(current, i) == SubSeq(current, 1, i - 1) \o SubSeq(current, i + 1, Len(current))

\* addUserToHistory(username): localStorage afterwards.  setItem stores the text
\* (accepted) or throws, and the catch leaves the store as it was.
AddUserToHistory(ls, username, accepted) ==
  LET u == Trim(username)
  IN  IF u = <<>> THEN ls
      ELSE LET current == GetUserHistory(ls)
               found   == FindIndex(current, u)
               without == IF found # 0 THEN Splice(current, found) ELSE current
               text    == JsonStringifyNames(Slice(<<u>> \o without, 0, HistoryCap))
           IN  IF accepted THEN SetItem(ls, HistoryKey, text) ELSE ls

\* current.filter((x) => x.toLowerCase() !== u.toLowerCase())
RECURSIVE FilterOut(_, _)
FilterOut(current, u) ==
  IF current = <<>> THEN <<>>
  ELSE IF ToLowerCase(Head(current)) # ToLowerCase(u)
       THEN <<Head(current)>> \o FilterOut(Tail(current), u)
       ELSE FilterOut(Tail(current), u)

\* removeUserFromHistory(username): localStorage afterwards.
RemoveUserFromHistory(ls, username, accepted) ==
  LET u    == Trim(username)
      next == FilterOut(GetUserHistory(ls), u)
  IN  IF accepted THEN SetItem(ls, HistoryKey, JsonStringifyNames(next)) ELSE ls

\* The name that is written to and fro: in both cases and with surrounding blanks.
HotNames == {<<"a">>, <<"A">>, <<" ", "a", " ">>}

BlankNames == {<<>>, <<" ">>}

\* The next name that the history has not seen: names that differ from every name of
\* the history, ignoring case, are alike to the code, so they are offered in the
\* order of the letters.
FreshNames(ls) ==
  LET h    == GetUserHistory(ls)
      used == {n \in 2..MaxNames : \E i \in 1..Len(h) : h[i] = <<LowerLetters[n]>>}
      next == IF used = {} THEN 2 ELSE 1 + (CHOOSE n \in used : \A m \in used : m <= n)
  IN  IF next <= MaxNames THEN {<<LowerLetters[next]>>} ELSE {}

\* The name entered most recently.
NewestName(ls) ==
  IF GetUserHistory(ls) = <<>> THEN {} ELSE {GetUserHistory(ls)[1]}

CallAddUserToHistory ==
  \E username \in BlankNames \cup HotNames \cup FreshNames(localStorage),
     accepted \in BOOLEAN :
    /\ localStorage' = AddUserToHistory(localStorage, username, accepted)
    /\ lastOp' = "addUserToHistory"
    /\ lastArg' = [username |-> username, stored |-> accepted]
    /\ UNCHANGED <<index, bareTouched, gamesVisited, recording, nOps, discarded, held,
                   pending, totalGames, stored, engine>>

CallRemoveUserFromHistory ==
  \E username \in BlankNames \cup HotNames \cup NewestName(localStorage),
     accepted \in BOOLEAN :
    /\ localStorage' = RemoveUserFromHistory(localStorage, username, accepted)
    /\ lastOp' = "removeUserFromHistory"
    /\ lastArg' = [username |-> username, stored |-> accepted]
    /\ UNCHANGED <<index, bareTouched, gamesVisited, recording, nOps, discarded, held,
                   pending, totalGames, stored, engine>>

NextHistory == CallAddUserToHistory \/ CallRemoveUserFromHistory

\* The user history of a page, from a localStorage that holds nothing.
SpecHistory == Init /\ [][NextHistory]_vars

\* ---------------------------------------------------------------- StockfishEngine

\* new Worker(...): it has been posted nothing and has answered nothing.
NewWorker == [terminated |-> FALSE, inbox |-> <<>>, answered |-> <<>>]

\* this.worker?.postMessage(cmd) for each cmd of cmds, in order.
Send(e, cmds) ==
  IF e.worker = 0 THEN e
  ELSE [e EXCEPT !.workers[e.worker].inbox = @ \o cmds]

\* StockfishEngine.init(): the engine afterwards; the promise the call returns is
\* added to returned.  An async function that returns nothing gives a promise that is
\* resolved; one that returns readyPromise gives a promise that follows it.
InitEngine(e) ==
  IF e.worker # 0 /\ e.ready THEN [e EXCEPT !.returned = @ \cup {0}]
  ELSE IF e.worker # 0 /\ ~e.ready /\ e.readyPromise # 0
       THEN [e EXCEPT !.returned = @ \cup {e.readyPromise}]
  ELSE
    LET w  == Len(e.workers) + 1
        p  == Len(e.promises) + 1
        e1 == [e EXCEPT !.workers = Append(@, NewWorker),
                        !.worker = w,
                        !.promises = Append(@, "pending"),
                        !.readyPromise = p,
                        !.resolveReady = p,
                        !.ready = FALSE,
                        !.returned = @ \cup {p}]
    IN  Send(e1, <<"uci">>)

\* StockfishEngine.dispose(): a terminated worker handles and answers nothing more.
DisposeEngine(e) ==
  LET e1 == IF e.worker = 0 THEN e
            ELSE [e EXCEPT !.workers[e.worker].terminated = TRUE,
                           !.workers[e.worker].inbox = <<>>]
  IN  [e1 EXCEPT !.worker = 0, !.ready = FALSE]

\* StockfishEngine.handleMessage(line) for the lines uciok and readyok; the other
\* lines (info, bestmove) change no field.
HandleMessage(e, line) ==
  IF line = "uciok"
  THEN Send(e, <<"setoption name Threads value 2", "setoption name Hash value 64",
                 "isready">>)
  ELSE IF line = "readyok"
  THEN [e EXCEPT !.ready = TRUE,
                 !.promises = IF e.resolveReady = 0 THEN @
                              ELSE [@ EXCEPT ![e.resolveReady] = "resolved"],
                 !.resolveReady = 0]
  ELSE e

\* StockfishEngine.evaluateFen(fen, movetimeMs)
EvaluateFen(e) ==
  IF e.worker = 0 \/ ~e.ready THEN [e EXCEPT !.posted = 0]
  ELSE [Send(e, <<"stop", "ucinewgame", "position fen", "go movetime">>)
          EXCEPT !.posted = 4]

\* The line a UCI engine answers a command with: uciok to uci, readyok to isready;
\* its other lines are info and bestmove, which handleMessage does not act on.
AnswerTo(cmd) ==
  IF cmd = "uci" THEN "uciok" ELSE IF cmd = "isready" THEN "readyok" ELSE "info"

\* The engine's part of a step: the fields of the other variables stay.
EngineStep(op, e) ==
  /\ engine' = e
  /\ lastOp' = op
  /\ UNCHANGED <<index, bareTouched, gamesVisited, lastArg, recording, nOps, discarded,
                 held, pending, totalGames, stored, localStorage>>

CallInitEngine ==
  /\ Len(engine.workers) < MaxWorkers \/ engine.worker # 0
  /\ EngineStep("init", InitEngine(engine))

CallDisposeEngine == EngineStep("dispose", DisposeEngine(engine))

CallEvaluateFen ==
  /\ engine.worker # 0 => Len(engine.workers[engine.worker].inbox) <= MaxQueued
  /\ EngineStep("evaluateFen", EvaluateFen(engine))

\* A worker that is not terminated takes the next command posted to it, and the page
\* handles the line it answers with (w.onmessage).
WorkerAnswers ==
  \E w \in 1..Len(engine.workers) :
    /\ ~engine.workers[w].terminated
    /\ engine.workers[w].inbox # <<>>
    /\ LET cmd  == Head(engine.workers[w].inbox)
           line == AnswerTo(cmd)
           e1   == [engine EXCEPT !.workers[w].inbox = Tail(@),
                                  !.workers[w].answered =
                                     IF line = "info" THEN @ ELSE Append(@, line)]
       IN  EngineStep("message", HandleMessage(e1, line))

NextEngine == CallInitEngine \/ CallDisposeEngine \/ CallEvaluateFen \/ WorkerAnswers

\* A StockfishEngine, its callers and its workers.
SpecEngine == Init /\ [][NextEngine]_vars

\* ---------------------------------------------------------------- properties

ResultSum(b) == b.results.win + b.results.loss + b.results.draw

BareOps == {"ingestUciMoves", "ingestSanMoves"}

\* C1.  Marginal consistency: in every bucket total equals the sum of moveCounts, of
\* toSquareCounts and of fromSquareCounts, after any sequence of ingestions and clears.
C1_MarginalConsistency ==
  \A f \in DOMAIN index :
    LET b == index[f]
    IN  /\ b.total = SumValues(b.moveCounts)
        /\ b.total = SumValues(b.toSquareCounts)
        /\ b.total = SumValues(b.fromSquareCounts)

\* A bucket that three ingestions of different kinds have added to, with two move keys.
C1_Witness ==
  \E f \in DOMAIN index :
    /\ index[f].total = 3
    /\ Len(index[f].moveCounts) = 2
    /\ f \in bareTouched
    /\ f \in DOMAIN gamesVisited

\* C2.  Role partition: in every bucket userTotal + oppTotal <= total, with equality
\* in every bucket that no bare move-list ingestion has recorded a ply for.
C2_RolePartition ==
  \A f \in DOMAIN index :
    LET b == index[f]
    IN  /\ b.userTotal + b.oppTotal <= b.total
        /\ f \notin bareTouched => b.userTotal + b.oppTotal = b.total

\* One bucket filled by games alone, with both a user and an opponent ply, and one
\* bucket that games and a bare list have both added to.
C2_Witness ==
  /\ \E f \in DOMAIN index :
       f \notin bareTouched /\ index[f].userTotal >= 1 /\ index[f].oppTotal >= 1
  /\ \E g \in DOMAIN index :
       /\ g \in bareTouched
       /\ index[g].oppTotal >= 1
       /\ index[g].userTotal + index[g].oppTotal < index[g].total

\* C3.  Color partition: in every bucket userWhiteTotal + userBlackTotal = userTotal
\* and oppWhiteTotal + oppBlackTotal = oppTotal.
C3_ColorPartition ==
  \A f \in DOMAIN index :
    LET b == index[f]
    IN  /\ b.userWhiteTotal + b.userBlackTotal = b.userTotal
        /\ b.oppWhiteTotal + b.oppBlackTotal = b.oppTotal

\* Plies of all four role-and-color groups have been recorded.
C3_Witness ==
  /\ \E f \in DOMAIN index : index[f].userWhiteTotal >= 1 /\ index[f].oppWhiteTotal >= 1
  /\ \E g \in DOMAIN index : index[g].userBlackTotal >= 1 /\ index[g].oppBlackTotal >= 1

\* C4.  Outcome dedup bound: in every bucket win + loss + draw is at most the number
\* of ingestGamePgn calls whose replay visited the bucket's position, and no bare
\* move-list ingestion the run can perform changes any results triple (a bucket it
\* creates has the zero triple).
C4_OutcomeDedupBound ==
  /\ \A f \in DOMAIN index :
       ResultSum(index[f]) <= (IF f \in DOMAIN gamesVisited THEN gamesVisited[f] ELSE 0)
  /\ nOps < MaxOps =>
       \A after \in {IngestUciMoves(index, ms).index : ms \in UciLists}
                  \cup {IngestSanMoves(index, ms).index : ms \in SanLists} :
         \A f \in DOMAIN after :
           after[f].results = BucketOrNew(index, f).results

\* A bucket visited by two games, one of them with an undetermined result, to which
\* a bare list has then added a ply.
C4_Witness ==
  /\ lastOp \in BareOps
  /\ \E f \in DOMAIN index :
       /\ f \in DOMAIN gamesVisited /\ gamesVisited[f] = 2
       /\ ResultSum(index[f]) = 1
       /\ f \in bareTouched

\* The outcome ingestGamePgn resolves for a call, "skip" when it returns before the replay.
ResolvedOutcome(username, pgn) ==
  IF PgnLoads(NewChess, pgn.moves)
  THEN Outcome(pgn.Result, TrimLower(username), TrimLower(pgn.White), TrimLower(pgn.Black))
  ELSE "skip"

\* C5.  Per-game outcome attribution: from every reached index, an ingestGamePgn call
\* whose resolved outcome is win, loss or draw adds exactly 1 to that outcome's counter
\* in the bucket of every position identifier that was the positionBefore of a replayed
\* ply, and leaves the other two counters of those buckets and the results of every
\* other bucket as they were.
C5_PerGameOutcome ==
  nOps < MaxOps =>
    \A username \in Usernames, pgn \in Pgns :
      LET outcome == ResolvedOutcome(username, pgn)
          r       == IngestGamePgn(index, username, pgn)
      IN  outcome \in {"win", "loss", "draw"} =>
            \A f \in DOMAIN r.index :
              r.index[f].results =
                IF f \in r.visited
                THEN [BucketOrNew(index, f).results EXCEPT ![outcome] = @ + 1]
                ELSE BucketOrNew(index, f).results

\* Two games along the same two-ply line, one won and one drawn, have each left their
\* outcome in both buckets of the line.
C5_Witness ==
  /\ lastOp = "ingestGamePgn"
  /\ \E f, g \in DOMAIN index :
       /\ f # g
       /\ index[f].results = [win |-> 1, loss |-> 0, draw |-> 1]
       /\ index[g].results = [win |-> 1, loss |-> 0, draw |-> 1]

\* The identity of the call equals neither player name of the record.
Unrelated(username, pgn) ==
  /\ TrimLower(username) # TrimLower(pgn.White)
  /\ TrimLower(username) # TrimLower(pgn.Black)

\* C6.  Skip unrelated game: an ingestGamePgn call whose identity equals neither the
\* White nor the Black name leaves the index unchanged, whatever the result tag.
C6_SkipUnrelatedGame ==
  [][(lastOp' = "ingestGamePgn" /\ Unrelated(lastArg'.username, lastArg'.pgn))
       => index' = index]_vars

\* The first illegal or unparseable move of a bare list from the starting position:
\* its place in the list (0 when every move is legal) and the identifiers before the
\* plies of the legal prefix.
RECURSIVE UciPrefix(_, _, _, _)
UciPrefix(chess, rest, k, fens) ==
  IF rest = <<>> THEN [firstIllegal |-> 0, fens |-> fens]
  ELSE LET ms == ObjectMatches(chess, Slice(Head(rest), 0, 2), Slice(Head(rest), 2, 4))
       IN  IF ms = {} THEN [firstIllegal |-> k, fens |-> fens]
           ELSE UciPrefix(MakeMove(chess, CHOOSE m \in ms : TRUE), Tail(rest), k + 1,
                          fens \cup {Fen(chess)})

RECURSIVE SanPrefix(_, _, _, _)
SanPrefix(chess, rest, k, fens) ==
  IF rest = <<>> THEN [firstIllegal |-> 0, fens |-> fens]
  ELSE LET ms == SanMatches(chess, Head(rest))
       IN  IF ms = {} THEN [firstIllegal |-> k, fens |-> fens]
           ELSE SanPrefix(MakeMove(chess, CHOOSE m \in ms : TRUE), Tail(rest), k + 1,
                          fens \cup {Fen(chess)})

\* after is before with one more ply counted in the bucket of each identifier of fens,
\* and no other bucket added or changed in its total.
AddsOneFactEach(before, after, fens) ==
  /\ DOMAIN after = DOMAIN before \cup fens
  /\ \A f \in DOMAIN after :
       after[f].total = BucketOrNew(before, f).total + (IF f \in fens THEN 1 ELSE 0)

\* C7.  Partial ingest on corruption: a bare list whose k-th move is its first illegal
\* one adds exactly the k-1 facts of the legal prefix, by ingestUciMoves and by
\* ingestSanMoves, and records nothing for the k-th ply or a later one.
C7_PartialIngest ==
  [][/\ lastOp' = "ingestUciMoves" /\ UciPrefix(NewChess, lastArg', 1, {}).firstIllegal > 0
          => AddsOneFactEach(index, index', UciPrefix(NewChess, lastArg', 1, {}).fens)
     /\ lastOp' = "ingestSanMoves" /\ SanPrefix(NewChess, lastArg', 1, {}).firstIllegal > 0
          => AddsOneFactEach(index, index', SanPrefix(NewChess, lastArg', 1, {}).fens)
    ]_vars

\* The half of C7 that ingestSanMoves satisfies, from every reached index.
C7_SanPartialIngest ==
  nOps < MaxOps =>
    \A sanMoves \in SanLists :
      SanPrefix(NewChess, sanMoves, 1, {}).firstIllegal > 0 =>
        AddsOneFactEach(index, IngestSanMoves(index, sanMoves).index,
                        SanPrefix(NewChess, sanMoves, 1, {}).fens)

\* C8.  Round trip: for every reached index, fromSerialized(serialize(index)) has the
\* same position identifiers and in each bucket the same totals, results triple and
\* count maps, every map with its keys in the same (insertion) order.
C8_RoundTrip == FromSerialized(Serialize(index)) = index

\* An index of two buckets with outcomes and role counts, one bucket holding two move
\* keys.
C8_Witness ==
  /\ Cardinality(DOMAIN index) >= 2
  /\ \E f \in DOMAIN index :
       /\ Len(index[f].moveCounts) >= 2
       /\ ResultSum(index[f]) >= 1
       /\ index[f].userTotal >= 1
       /\ index[f].oppTotal >= 1

\* The move key an entry of getTopMoves was made from.
EntryKey(e) == e.from \o e.to \o e.promotion

\* The place of key k in map m.
KeyPlace(m, k) == CHOOSE i \in 1..Len(m) : m[i][1] = k

\* The limits tried on a bucket: none, each number of its keys, one more, the default.
LimitsFor(b) == 0..(Len(b.moveCounts) + 1) \cup {DefaultLimit}

\* C9.  Top-k ordering: getTopMoves(p, k) returns at most k entries, each a move of the
\* bucket's moveCounts with its count, in non-increasing count order, entries of equal
\* count in the order in which the moves were first observed in the bucket.
C9_TopMovesOrdering ==
  \A f \in DOMAIN index :
    \A k \in LimitsFor(index[f]) :
      LET mc  == index[f].moveCounts
          top == GetTopMoves(index, f, k)
      IN  /\ Len(top) <= k
          /\ \A i \in 1..Len(top) :
               /\ MapHas(mc, EntryKey(top[i]))
               /\ top[i].count = MapGet(mc, EntryKey(top[i]))
          /\ \A i, j \in 1..Len(top) :
               i < j =>
                 /\ top[i].count >= top[j].count
                 /\ top[i].count = top[j].count =>
                      KeyPlace(mc, EntryKey(top[i])) < KeyPlace(mc, EntryKey(top[j]))

\* A bucket whose second-observed move has become the more frequent one: the sort
\* moves it to the front, and a limit of 1 returns it alone.
C9_Witness ==
  \E f \in DOMAIN index :
    LET mc == index[f].moveCounts
    IN  /\ Len(mc) = 2
        /\ mc[1][2] < mc[2][2]
        /\ Len(GetTopMoves(index, f, 1)) = 1
        /\ EntryKey(GetTopMoves(index, f, DefaultLimit)[1]) = mc[2][1]

\* A bucket without its four global counters.
RoleView(b) ==
  [b EXCEPT !.total = 0, !.moveCounts = <<>>, !.toSquareCounts = <<>>,
            !.fromSquareCounts = <<>>]

\* C10.  Identity-agnostic ingestion touches only global counters: from every reached
\* index, ingestUciMoves and ingestSanMoves leave results, the role totals, the
\* role-and-color totals and all their count maps of every bucket as they were, and
\* zero and empty in a bucket they create; no bucket is removed.
C10_BareIngestionGlobalOnly ==
  nOps < MaxOps =>
    \A after \in {IngestUciMoves(index, ms).index : ms \in UciLists}
               \cup {IngestSanMoves(index, ms).index : ms \in SanLists} :
      /\ DOMAIN index \subseteq DOMAIN after
      /\ \A f \in DOMAIN after :
           RoleView(after[f]) = RoleView(BucketOrNew(index, f))

\* A bare list has added a ply to a bucket that holds role counts and outcomes of a
\* game, and has created a bucket of its own.
C10_Witness ==
  /\ lastOp \in BareOps
  /\ \E f \in DOMAIN index :
       /\ f \in bareTouched
       /\ index[f].userTotal >= 1
       /\ ResultSum(index[f]) >= 1
  /\ \E g \in DOMAIN index :
       g \in bareTouched /\ g \notin DOMAIN gamesVisited


\* The color the identity of the call played in the record, "none" when it equals
\* neither player name.
IdentityColor(username, pgn) ==
  IF TrimLower(username) = TrimLower(pgn.White) THEN "w"
  ELSE IF TrimLower(username) = TrimLower(pgn.Black) THEN "b"
  ELSE "none"

RoleTotals == {"userTotal", "oppTotal"}

RoleColorTotals == {"userWhiteTotal", "userBlackTotal", "oppWhiteTotal", "oppBlackTotal"}

\* The role total and the role-and-color total of a ply by a mover of color c in a
\* game the identity played with color ic.
GroupsOf(c, ic) ==
  IF c = ic
  THEN {"userTotal", IF c = "w" THEN "userWhiteTotal" ELSE "userBlackTotal"}
  ELSE {"oppTotal", IF c = "w" THEN "oppWhiteTotal" ELSE "oppBlackTotal"}

\* C11.  Role and color attribution: from every reached index, an ingestGamePgn call
\* whose identity equals one player name adds, for every replayed ply, 1 to exactly one
\* of the four role-and-color totals of the positionBefore bucket (and to the role total
\* of the same role): the user's total of color c when the mover's color c (the side to
\* move of positionBefore) is the color the identity played, the opponent's total of
\* color c otherwise.  No other role or role-and-color total of any bucket changes.
C11_RoleColorAttribution ==
  nOps < MaxOps =>
    \A username \in Usernames, pgn \in Pgns :
      LET ic == IdentityColor(username, pgn)
          r  == IngestGamePgn(index, username, pgn)
      IN  ic # "none" =>
            \A f \in DOMAIN r.index :
              \A g \in RoleTotals \cup RoleColorTotals :
                r.index[f][g] =
                  BucketOrNew(index, f)[g]
                    + (IF f \in r.visited /\ g \in GroupsOf(f.turn, ic) THEN 1 ELSE 0)

\* The spec's example, reached by one game: White alice, Black bob, moves e4 e5,
\* identity alice.  The start bucket holds one ply of the user as White, the bucket
\* after e4 one ply of the opponent as Black.
C11_Witness ==
  /\ lastOp = "ingestGamePgn"
  /\ nOps = 1
  /\ \E f, g \in DOMAIN index :
       /\ f = Fen(NewChess)
       /\ g.turn = "b"
       /\ index[f].total = 1 /\ index[f].userTotal = 1 /\ index[f].userWhiteTotal = 1
       /\ index[f].oppTotal = 0 /\ index[f].userBlackTotal = 0
       /\ index[g].total = 1 /\ index[g].oppTotal = 1 /\ index[g].oppBlackTotal = 1
       /\ index[g].userTotal = 0 /\ index[g].oppWhiteTotal = 0


\* The outcome the claim states for a result tag and the color the identity played.
StatedOutcome(resultTag, ic) ==
  CASE resultTag = "1-0"     -> (IF ic = "w" THEN "win" ELSE "loss")
    [] resultTag = "0-1"     -> (IF ic = "b" THEN "win" ELSE "loss")
    [] resultTag = "1/2-1/2" -> "draw"
    [] OTHER                 -> "none"

\* C12.  Outcome resolution: for every game record that loads and in which the identity
\* equals one player name, ingestGamePgn resolves 1-0 to win for White and loss for
\* Black, 0-1 to win for Black and loss for White, 1/2-1/2 to draw and any other tag to
\* none; and from every reached index it is that outcome, and no other, that the call
\* adds to the results of the buckets it replays.
C12_OutcomeResolution ==
  nOps < MaxOps =>
    \A username \in Usernames, pgn \in Pgns :
      LET ic == IdentityColor(username, pgn)
          e  == StatedOutcome(pgn.Result, ic)
          r  == IngestGamePgn(index, username, pgn)
      IN  (ic # "none" /\ PgnLoads(NewChess, pgn.moves)) =>
            /\ ResolvedOutcome(username, pgn) = e
            /\ \A f \in DOMAIN r.index :
                 r.index[f].results =
                   IF f \in r.visited /\ e # "none"
                   THEN [BucketOrNew(index, f).results EXCEPT ![e] = @ + 1]
                   ELSE BucketOrNew(index, f).results

\* Three games from the start position, the identity playing White in one and Black in
\* another: one won, one lost, and one that left no outcome.
C12_Witness ==
  /\ lastOp = "ingestGamePgn"
  /\ LET b == BucketOrNew(index, Fen(NewChess))
     IN  /\ b.total = 3
         /\ b.results = [win |-> 1, loss |-> 1, draw |-> 0]
         /\ b.userWhiteTotal >= 1
         /\ b.oppWhiteTotal >= 1


DecisiveTags == {"1-0", "0-1", "1/2-1/2"}

\* The number of plies a bucket counts in its global, role and role-and-color groups,
\* by the totals and by the move-count maps.
PliesCounted(b) ==
  [global    |-> <<b.total, SumValues(b.moveCounts)>>,
   role      |-> <<b.userTotal + b.oppTotal,
                   SumValues(b.userMoveCounts) + SumValues(b.oppMoveCounts)>>,
   roleColor |-> <<b.userWhiteTotal + b.userBlackTotal + b.oppWhiteTotal + b.oppBlackTotal,
                   SumValues(b.userWhiteMoveCounts) + SumValues(b.userBlackMoveCounts)
                     + SumValues(b.oppWhiteMoveCounts) + SumValues(b.oppBlackMoveCounts)>>]

\* C13.  Undetermined result: from every reached index, an ingestGamePgn call on a
\* loading game whose result tag is none of 1-0, 0-1, 1/2-1/2 leaves the results of
\* every bucket as they were, and counts one more ply in the global, the role and the
\* role-and-color counters of the positionBefore bucket of every ply of the game.
C13_UndeterminedResult ==
  nOps < MaxOps =>
    \A username \in Usernames, pgn \in Pgns :
      (pgn.Result \notin DecisiveTags /\ PgnLoads(NewChess, pgn.moves)) =>
        LET r     == IngestGamePgn(index, username, pgn)
            plies == SanPrefix(NewChess, pgn.moves, 1, {}).fens
        IN  /\ DOMAIN r.index = DOMAIN index \cup plies
            /\ \A f \in DOMAIN r.index :
                 LET before == PliesCounted(BucketOrNew(index, f))
                     after  == PliesCounted(r.index[f])
                     n      == IF f \in plies THEN 1 ELSE 0
                 IN  /\ r.index[f].results = BucketOrNew(index, f).results
                     /\ \A grp \in {"global", "role", "roleColor"} :
                          after[grp] = <<before[grp][1] + n, before[grp][2] + n>>

\* One game of the identity with the tag '*' into an empty index: both plies counted
\* with their roles, no outcome anywhere.
C13_Witness ==
  /\ lastOp = "ingestGamePgn"
  /\ nOps = 1
  /\ Cardinality(DOMAIN index) = 2
  /\ \A f \in DOMAIN index :
       /\ index[f].total = 1
       /\ index[f].userTotal + index[f].oppTotal = 1
       /\ ResultSum(index[f]) = 0
  /\ \E f \in DOMAIN index : index[f].userTotal = 1


\* C14.  Query results are not live handles: whatever a caller holds from getBucket,
\* getTopMoves, getResultStats or serialize still has, after any later ingestion or
\* clear, the value it had when it was returned.
C14_NotLiveHandles ==
  held.op \in {"getBucket", "getTopMoves", "getResultStats", "serialize"} =>
    ValueOf(held, index) = held.returned

\* C20.  Queries are pure: no query step (getBucket, getTopMoves, getResultStats,
\* serialize, size) adds or removes a bucket or changes any field of one; for a position
\* without a bucket getBucket returns null, getTopMoves the empty list and
\* getResultStats win = loss = draw = total = 0; for a position with a bucket
\* getResultStats returns the bucket's three outcome counters and their sum as total.
C20_QueriesPure ==
  [][lastOp' \in QueryOps =>
       /\ index' = index
       /\ (lastOp' = "getBucket" /\ held'.fen \notin DOMAIN index) =>
            held'.returned = Null
       /\ (lastOp' = "getTopMoves" /\ held'.fen \notin DOMAIN index) =>
            held'.returned = <<>>
       /\ (lastOp' = "getResultStats" /\ held'.fen \notin DOMAIN index) =>
            held'.returned = [win |-> 0, loss |-> 0, draw |-> 0, total |-> 0]
       /\ (lastOp' = "getResultStats" /\ held'.fen \in DOMAIN index) =>
            LET st == held'.returned
            IN  /\ st.total = st.win + st.loss + st.draw
                /\ [win |-> st.win, loss |-> st.loss, draw |-> st.draw]
                     = index[held'.fen].results
    ]_vars

\* getResultStats has just answered for a bucket that holds two plies and two
\* outcomes, one of them a win, while another of the positions asked about has no
\* bucket.
C20_Witness ==
  /\ lastOp = "getResultStats"
  /\ held.fen \in DOMAIN index
  /\ held.returned.total = 2
  /\ index[held.fen].total = 2
  /\ held.returned.win = 1
  /\ QueryFens \ DOMAIN index # {}


\* The field of a bucket that fromSerialized fills from field x of a record.
BucketField(x) ==
  CASE x = "t"    -> "total"
    [] x = "m"    -> "moveCounts"
    [] x = "to"   -> "toSquareCounts"
    [] x = "fr"   -> "fromSquareCounts"
    [] x = "r"    -> "results"
    [] x = "ut"   -> "userTotal"
    [] x = "um"   -> "userMoveCounts"
    [] x = "uto"  -> "userToSquareCounts"
    [] x = "ot"   -> "oppTotal"
    [] x = "om"   -> "oppMoveCounts"
    [] x = "oto"  -> "oppToSquareCounts"
    [] x = "uwt"  -> "userWhiteTotal"
    [] x = "uwm"  -> "userWhiteMoveCounts"
    [] x = "uwto" -> "userWhiteToSquareCounts"
    [] x = "ubt"  -> "userBlackTotal"
    [] x = "ubm"  -> "userBlackMoveCounts"
    [] x = "ubto" -> "userBlackToSquareCounts"
    [] x = "owt"  -> "oppWhiteTotal"
    [] x = "owm"  -> "oppWhiteMoveCounts"
    [] x = "owto" -> "oppWhiteToSquareCounts"
    [] x = "obt"  -> "oppBlackTotal"
    [] x = "obm"  -> "oppBlackMoveCounts"
    [] x = "obto" -> "oppBlackToSquareCounts"

TotalFields == {"t", "ut", "ot", "uwt", "ubt", "owt", "obt"}

\* v is the number n; a value that is no number (undefined) is not.
IsNumber(v, n) == ToString(v) = ToString(n)

\* Field x of a bucket rebuilt from a record without x is zero or empty.
ZeroOrEmpty(b, x) ==
  IF x \in TotalFields THEN IsNumber(b[BucketField(x)], 0)
  ELSE IF x = "r" THEN b.results = [win |-> 0, loss |-> 0, draw |-> 0]
  ELSE b[BucketField(x)] = <<>>

\* C15.  Tolerant deserialization: in the index fromSerialized builds, every total whose
\* field the bucket record omits is 0, every count map whose field it omits is empty
\* and an omitted outcome triple is three zeros, whichever fields of the record are
\* omitted.
C15_TolerantDeserialization ==
  lastOp = "fromSerialized" =>
    \A f \in DOMAIN index :
      \A x \in SerializedFields \ DOMAIN stored[f] : ZeroOrEmpty(index[f], x)

\* The part of C15 that fromSerialized satisfies: every omitted field but t.
C15_AllButTotal ==
  lastOp = "fromSerialized" =>
    \A f \in DOMAIN index :
      \A x \in SerializedFields \ (DOMAIN stored[f] \cup {"t"}) : ZeroOrEmpty(index[f], x)


\* A good record: a line that parses, carries a game text, and whose game text loads.
GoodLine(line) ==
  /\ line.kind = "json"
  /\ line.value # Null
  /\ "pgn" \in DOMAIN line.value
  /\ PgnLoads(NewChess, line.value.pgn.moves)

\* The index after ingestGamePgn of the good records among lines, in their order.
RECURSIVE GoodOnly(_, _, _)
GoodOnly(idx, username, lines) ==
  IF lines = <<>> THEN idx
  ELSE GoodOnly(IF GoodLine(Head(lines))
                THEN IngestGamePgn(idx, username, Head(lines).value.pgn).index
                ELSE idx,
                username, Tail(lines))

\* C16.  Batch isolation: at every point of the loop of fetchAndIndexUserGames, the end
\* of the download included, the index equals the index obtained by ingestGamePgn of
\* only the good records among the lines the loop has passed, in the same order: a
\* bad record changes nothing and the good records after it are ingested.
C16_BatchIsolation ==
  index = GoodOnly(EmptyIndex, pending.username, SubSeq(pending.lines, 1, pending.at))

\* The loop has left a download of a good record, a line that is no JSON and a second
\* good record: both games are in the start bucket.
C16_Witness ==
  /\ pending.at = 3
  /\ Len(pending.lines) = 3
  /\ GoodLine(pending.lines[1])
  /\ pending.lines[2] = LineOfText
  /\ GoodLine(pending.lines[3])
  /\ index[Fen(NewChess)].total = 2
  /\ totalGames = 2


\* C17.  clear() empties the index from any reached state: right after it size is 0,
\* getBucket returns null for every position that had a bucket and for every position
\* asked about, and each ingestion the run can perform next gives the index it gives on
\* a newly constructed MoveIndex.
C17_ClearEmpties ==
  [][lastOp' = "clear" =>
       /\ Size(index') = 0
       /\ \A f \in DOMAIN index \cup QueryFens : GetBucket(index', f) = Null
       /\ \A ms \in UciLists :
            IngestUciMoves(index', ms).index = IngestUciMoves(EmptyIndex, ms).index
       /\ \A ms \in SanLists :
            IngestSanMoves(index', ms).index = IngestSanMoves(EmptyIndex, ms).index
       /\ \A username \in Usernames, pgn \in Pgns :
            IngestGamePgn(index', username, pgn).index
              = IngestGamePgn(EmptyIndex, username, pgn).index
    ]_vars

\* clear() has just removed the two buckets of an index.
C17_Witness ==
  /\ lastOp = "clear"
  /\ discarded = 2
  /\ index = EmptyIndex

BucketTotals ==
  {"total", "userTotal", "oppTotal", "userWhiteTotal", "userBlackTotal", "oppWhiteTotal",
   "oppBlackTotal"}

BucketMaps ==
  {"moveCounts", "toSquareCounts", "fromSquareCounts", "userMoveCounts",
   "userToSquareCounts", "oppMoveCounts", "oppToSquareCounts", "userWhiteMoveCounts",
   "userWhiteToSquareCounts", "userBlackMoveCounts", "userBlackToSquareCounts",
   "oppWhiteMoveCounts", "oppWhiteToSquareCounts", "oppBlackMoveCounts",
   "oppBlackToSquareCounts"}

Outcomes == {"win", "loss", "draw"}

\* Every bucket of before is in after, with no total, outcome counter or count-map
\* entry lower than it was.
GrownFrom(before, after) ==
  /\ DOMAIN before \subseteq DOMAIN after
  /\ Size(before) <= Size(after)
  /\ \A f \in DOMAIN before :
       /\ \A t \in BucketTotals : before[f][t] <= after[f][t]
       /\ \A o \in Outcomes : before[f].results[o] <= after[f].results[o]
       /\ \A m \in BucketMaps :
            \A k \in MapKeys(before[f][m]) :
              MapHas(after[f][m], k) /\ MapGet(before[f][m], k) <= MapGet(after[f][m], k)

\* C18.  Append-only store: every step of the index that is not clear() keeps every
\* position identifier of the index and lowers no total, no outcome counter and no
\* count-map entry; size does not decrease.
C18_AppendOnly ==
  [][lastOp' # "clear" => GrownFrom(index, index')]_vars

\* Ingestions of all three kinds, with no clear since the index was last empty, have
\* grown an index of two buckets, one of them with a move counted three times.
C18_Witness ==
  /\ nOps = MaxOps
  /\ lastOp # "clear"
  /\ Size(index) = 2
  /\ \E f \in DOMAIN index :
       /\ index[f].total = 3
       /\ index[f].moveCounts[1][2] = 3
       /\ f \in bareTouched
       /\ f \in DOMAIN gamesVisited

\* C19.  No deduplication across ingestion calls: from every reached index that leaves
\* room for two more calls, two ingestGamePgn calls with the same game record and the
\* same identity add to every total, every outcome counter and every count-map entry of
\* every bucket exactly twice what the first call adds, and create the buckets the
\* first call creates.
C19_NoDedupAcrossCalls ==
  nOps + 2 <= MaxOps =>
    \A username \in Usernames, pgn \in Pgns :
      LET once  == IngestGamePgn(index, username, pgn).index
          twice == IngestGamePgn(once, username, pgn).index
      IN  /\ DOMAIN twice = DOMAIN once
          /\ \A f \in DOMAIN twice :
               LET b0 == BucketOrNew(index, f)
                   b1 == once[f]
                   b2 == twice[f]
               IN  /\ \A t \in BucketTotals : b2[t] - b0[t] = 2 * (b1[t] - b0[t])
                   /\ \A o \in Outcomes :
                        b2.results[o] - b0.results[o] = 2 * (b1.results[o] - b0.results[o])
                   /\ \A m \in BucketMaps :
                        /\ MapKeys(b2[m]) = MapKeys(b1[m])
                        /\ \A k \in MapKeys(b2[m]) :
                             MapGet(b2[m], k) - MapGet(b0[m], k)
                               = 2 * (MapGet(b1[m], k) - MapGet(b0[m], k))

\* The game White alice, Black bob, 1-0, e4 e5 has been ingested twice into an empty
\* index: both buckets count two plies and two wins.
C19_Witness ==
  /\ lastOp = "ingestGamePgn"
  /\ nOps = 2
  /\ Size(index) = 2
  /\ \A f \in DOMAIN index :
       /\ index[f].total = 2
       /\ index[f].results = [win |-> 2, loss |-> 0, draw |-> 0]
       /\ index[f].moveCounts[1][2] = 2
  /\ index[Fen(NewChess)].userWhiteTotal = 2


\* The members of a parsed top-level object, in order.
Members(v) == [i \in 1..Len(v.object) |-> v.object[i][2]]

\* v is a record of bucket fields: no null, number, array or top-level object.
IsBucketRecord(v) == DOMAIN v \cap {"null", "number", "array", "object"} = {}

\* The text is no JSON text (the empty string is none).
NotValidJson(raw) == raw.kind # "json"

\* The parsed value is no mapping from position identifiers to bucket records.
StructurallyInvalid(v) ==
  \/ "object" \notin DOMAIN v
  \/ \E i \in 1..Len(v.object) : ~IsBucketRecord(Members(v)[i])

\* The parsed value is a mapping whose bucket records were written before the role
\* split or the color split: each lacks one of ut, om, uwt, obm.
OlderFormat(v) ==
  /\ "object" \in DOMAIN v
  /\ v.object # <<>>
  /\ \A i \in 1..Len(v.object) :
       /\ IsBucketRecord(Members(v)[i])
       /\ ~({"ut", "om", "uwt", "obm"} \subseteq DOMAIN Members(v)[i])

\* What is under the key gives no index: nothing, text that is no JSON, a
\* structurally invalid value or an older-format value.
NoIndexUnder(ls, key) ==
  \/ key \notin DOMAIN ls
  \/ NotValidJson(ls[key])
  \/ StructurallyInvalid(ls[key].value)
  \/ OlderFormat(ls[key].value)

\* C21.  Loader failure mode: loadIndexFromLocalStorage never raises, and it returns
\* null when the key is missing, when the text under it is no valid JSON, when the
\* parsed value is structurally invalid, and when it is an older-format value whose
\* bucket records lack the role-split or the color-split fields.
C21_LoaderFailureMode ==
  lastOp = "loadIndexFromLocalStorage" =>
    /\ ~held.returned.threw
    /\ (NoIndexUnder(localStorage, IndexKey) => held.returned.value = Null)

\* The cases of NoIndexUnder with the structurally invalid values narrowed to those
\* that are no object, have a first member that is no bucket record, or have a member
\* that is null.
NoIndexFound(ls, key) ==
  \/ key \notin DOMAIN ls
  \/ NotValidJson(ls[key])
  \/ OlderFormat(ls[key].value)
  \/ "object" \notin DOMAIN ls[key].value
  \/ /\ ls[key].value.object # <<>>
     /\ ~IsBucketRecord(Members(ls[key].value)[1])
  \/ \E i \in 1..Len(ls[key].value.object) : Members(ls[key].value)[i] = Null

\* The part of C21 that loadIndexFromLocalStorage satisfies: it never raises, and it
\* returns null in the cases of NoIndexFound.
C21_FirstBucketOnly ==
  lastOp = "loadIndexFromLocalStorage" =>
    /\ ~held.returned.threw
    /\ (NoIndexFound(localStorage, IndexKey) => held.returned.value = Null)


\* localStorage holds under the key a text saveIndexToLocalStorage writes for idx.
HoldsTextOf(ls, key, idx) == key \in DOMAIN ls /\ ls[key] \in SavedTexts(idx)

\* C22.  Persisted round trip: when saveIndexToLocalStorage has stored an index built
\* by ingestion, an index with no buckets included, loadIndexFromLocalStorage of the
\* same key returns an index, not null, whose buckets are those of the saved index
\* with the same counts.
C22_PersistedRoundTrip ==
  [][(/\ lastOp = "saveIndexToLocalStorage"
      /\ HoldsTextOf(localStorage, IndexKey, index)
      /\ lastOp' = "loadIndexFromLocalStorage")
     => held'.returned.value = [index |-> index]]_vars

\* The part of C22 that the loader satisfies: the round trip of an index that has a
\* bucket.
C22_NonEmptyRoundTrip ==
  [][(/\ lastOp = "saveIndexToLocalStorage"
      /\ HoldsTextOf(localStorage, IndexKey, index)
      /\ index # EmptyIndex
      /\ lastOp' = "loadIndexFromLocalStorage")
     => held'.returned.value = [index |-> index]]_vars

\* The other part: the saved text of an index with no buckets is looked up as null.
C22_EmptyIsNull ==
  [][(/\ lastOp = "saveIndexToLocalStorage"
      /\ HoldsTextOf(localStorage, IndexKey, index)
      /\ index = EmptyIndex
      /\ lastOp' = "loadIndexFromLocalStorage")
     => held'.returned.value = Null]_vars


\* C23.  No empty buckets: after any sequence of ingestions every bucket of the index
\* has a total of at least 1; a bucket with a recorded outcome and a total of 0 does
\* not occur, since addResult is called only for the position addMove was just called
\* for.
C23_NoEmptyBuckets ==
  \A f \in DOMAIN index :
    /\ index[f].total >= 1
    /\ ~(ResultSum(index[f]) > 0 /\ index[f].total = 0)

\* A game of the identity has been ingested into an index that a bare move list also
\* fed: two buckets, both with an outcome and a total.
C23_Witness ==
  /\ lastOp = "ingestGamePgn"
  /\ bareTouched # {}
  /\ \E f, g \in DOMAIN index :
       /\ f # g
       /\ ResultSum(index[f]) >= 1 /\ index[f].total >= 2
       /\ ResultSum(index[g]) >= 1 /\ index[g].total >= 1


\* The six role groups of a bucket: the fields of the total, of the move-key map and
\* of the to-square map.
RoleGroups ==
  {<<"userTotal", "userMoveCounts", "userToSquareCounts">>,
   <<"oppTotal", "oppMoveCounts", "oppToSquareCounts">>,
   <<"userWhiteTotal", "userWhiteMoveCounts", "userWhiteToSquareCounts">>,
   <<"userBlackTotal", "userBlackMoveCounts", "userBlackToSquareCounts">>,
   <<"oppWhiteTotal", "oppWhiteMoveCounts", "oppWhiteToSquareCounts">>,
   <<"oppBlackTotal", "oppBlackMoveCounts", "oppBlackToSquareCounts">>}

\* C24.  Role-group marginal consistency: after any sequence of ingestions, in every
\* bucket the total of each of the six role groups equals the sum of the group's
\* move-key counts and the sum of its to-square counts, and for every move key the
\* user's count plus the opponent's count is at most the global count.
C24_RoleGroupMarginals ==
  \A f \in DOMAIN index :
    LET b == index[f]
    IN  /\ \A g \in RoleGroups :
             /\ b[g[1]] = SumValues(b[g[2]])
             /\ b[g[1]] = SumValues(b[g[3]])
        /\ \A k \in MapKeys(b.moveCounts) \cup MapKeys(b.userMoveCounts)
                      \cup MapKeys(b.oppMoveCounts) :
             MapGet(b.userMoveCounts, k) + MapGet(b.oppMoveCounts, k)
               <= MapGet(b.moveCounts, k)

\* A bucket with two move keys, one of them counted for a role by a game and also fed
\* by a bare list, so that its role counts are below its global count; and a bucket
\* with a ply of the opponent playing Black.
C24_Witness ==
  /\ \E f \in DOMAIN index :
       \E k \in MapKeys(index[f].moveCounts) :
         /\ Len(index[f].moveCounts) = 2
         /\ MapGet(index[f].userMoveCounts, k) + MapGet(index[f].oppMoveCounts, k) >= 1
         /\ MapGet(index[f].userMoveCounts, k) + MapGet(index[f].oppMoveCounts, k)
              < MapGet(index[f].moveCounts, k)
  /\ \E g \in DOMAIN index : index[g].oppBlackTotal >= 1


\* C25.  Single mover color per bucket: in every bucket of an index built by ingestion
\* the totals of White movers (userWhiteTotal + oppWhiteTotal) and the totals of Black
\* movers (userBlackTotal + oppBlackTotal) are not both above zero, since the position
\* identifier of the bucket fixes the side to move.
C25_SingleMoverColor ==
  \A f \in DOMAIN index :
    \/ index[f].userWhiteTotal + index[f].oppWhiteTotal = 0
    \/ index[f].userBlackTotal + index[f].oppBlackTotal = 0

\* Games in which the identity played White and games in which it played Black have
\* both been replayed from one position, and a position with Black to move has plies
\* too.
C25_Witness ==
  /\ \E f \in DOMAIN index : index[f].userWhiteTotal >= 1 /\ index[f].oppWhiteTotal >= 1
  /\ \E g \in DOMAIN index : index[g].userBlackTotal + index[g].oppBlackTotal >= 1


\* At most HistoryCap names, no two of them equal ignoring letter case.
WellFormedHistory(h) ==
  /\ Len(h) <= HistoryCap
  /\ Cardinality({ToLowerCase(h[i]) : i \in 1..Len(h)}) = Len(h)

\* The first entry of the history is the trimmed name.
FirstIs(h, username) == h # <<>> /\ h[1] = Trim(username)

\* C26.  User-history well-formedness: from an empty store, after any
\* sequence of addUserToHistory and removeUserFromHistory calls the stored history
\* holds at most 20 names, no two of them equal ignoring letter case, and after
\* addUserToHistory(u) with a non-blank u its first entry is the trimmed u.
C26_HistoryWellFormed ==
  /\ WellFormedHistory(GetUserHistory(localStorage))
  /\ (lastOp = "addUserToHistory" /\ Trim(lastArg.username) # <<>>)
       => FirstIs(GetUserHistory(localStorage), lastArg.username)

\* The part of C26 that the code satisfies: the stored history holds at most 20
\* names, no two of them equal ignoring letter case, and the trimmed u is its first
\* entry after every addUserToHistory(u) with a non-blank u whose setItem did not
\* throw.
C26_ExceptRefusedWrites ==
  /\ WellFormedHistory(GetUserHistory(localStorage))
  /\ (lastOp = "addUserToHistory" /\ Trim(lastArg.username) # <<>> /\ lastArg.stored)
       => FirstIs(GetUserHistory(localStorage), lastArg.username)

\* The live worker has answered uciok and then readyok.
LiveWorkerReady(e) ==
  /\ e.worker # 0
  /\ ~e.workers[e.worker].terminated
  /\ e.workers[e.worker].answered = <<"uciok", "readyok">>

\* Promise p, returned by init, is resolved.
Resolved(e, p) == p = 0 \/ e.promises[p] = "resolved"

\* C27.  Engine readiness: under every interleaving of init and dispose calls, once
\* the live worker has answered uciok and then readyok every promise init has
\* returned is resolved; and an evaluateFen call made while ready is false posts no
\* command.
C27_EngineReadiness ==
  /\ LiveWorkerReady(engine) => \A p \in engine.returned : Resolved(engine, p)
  /\ (lastOp = "evaluateFen" /\ ~engine.ready) => engine.posted = 0

\* The part of C27 that the engine satisfies: once the live worker has answered, the
\* promises init returned since that worker was made are resolved, and no promise
\* is left with its resolver held; evaluateFen posts nothing while ready is false and
\* four commands otherwise.
C27_CurrentWorkerOnly ==
  /\ LiveWorkerReady(engine) =>
       /\ engine.ready
       /\ Resolved(engine, engine.readyPromise)
       /\ engine.resolveReady = 0
  /\ lastOp = "evaluateFen" => engine.posted = (IF engine.ready THEN 4 ELSE 0)

====
